---- MODULE Spec2Model ----
(***************************************************************************)
(* A model of miniwfs' Index (src/unnamed/part_004, second file, lines     *)
(* 326-873): the name -> Collection map guarded by an RWMutex, the         *)
(* watchFiles goroutine that reloads changed files, Index.Close, and the   *)
(* query operations GetItems / GetItem / GetTile.                          *)
(***************************************************************************)
EXTENDS Integers, Sequences, FiniteSets, TLC

(***************************************************************************)
(* Bounds of the model.                                                    *)
(***************************************************************************)
MaxTime == 2        \* file modification times range over 1..MaxTime (after the initial load at BaseTime)
NumReaders == 1     \* concurrent request goroutines
MaxStores == 4      \* Collection objects alive at the same time

Names == {"a", "b"}                 \* the collection names given to MakeIndex
Changing == {"a"}                   \* the collections that are rewritten and queried while serving
Readers == 1..NumReaders
Docs == 1..2                        \* contents a collection file can have
Ops == {"Write", "Create", "Remove", "Rename"}   \* fsnotify.Op bits

\* The zero value of time.Time (readCollection's threshold at the initial load).
ZeroTime == 0
\* Modification time of every file when MakeIndex loads it.
BaseTime == ZeroTime + 1
Times == BaseTime..(BaseTime + MaxTime)

\* filepath.Abs of the path configured for a collection; all in one directory.
PathOf(n) == "/data/" \o n
OtherPath == "/data/other.tmp"      \* another file of the watched directory
Paths == {PathOf(n) : n \in Names} \cup {OtherPath}

NoStore == 0                        \* a nil *Collection
Slots == 1..MaxStores               \* identities of Collection objects

VARIABLES
    files,        \* the file system: name -> [mtime, doc, state]
    stores,       \* every Collection object built so far (index = identity)
    Collections,  \* Index.Collections: name -> store (NoStore = no entry)
    mutex,        \* Index.mutex: [readers |-> count, writer |-> BOOLEAN]
    watch,        \* the watchFiles goroutine
    closer,       \* the goroutine calling Index.Close
    rd,           \* the request goroutines
    pg            \* one GetItems caller outside any concurrency: its request and results

vars == <<files, stores, Collections, mutex, watch, closer, rd, pg>>

\* type CollectionMetadata struct
CollectionMetadata(n, t) == [Name |-> n, Path |-> PathOf(n), LastModified |-> t]
NoMetadata == [Name |-> "", Path |-> "", LastModified |-> ZeroTime]

\* type Collection struct: metadata, dataFile (open or closed and removed),
\* and the arrays filled by readCollection (built = all of them written).
Collection(n, t, d) ==
    [metadata |-> CollectionMetadata(n, t), doc |-> d, dataFile |-> "open", built |-> FALSE]

\* No object: a slot whose Collection was garbage-collected or never allocated.
Free == [metadata |-> NoMetadata, doc |-> 0, dataFile |-> "none", built |-> FALSE]

\* func (c *Collection) Close(): closes and removes the backing file.
CollectionClose(c) == [c EXCEPT !.dataFile = "closed"]

CanRLock_NoWait(m) == TRUE

\* sync.RWMutex: RLock is granted when no writer holds the lock.
CanRLock(m) == ~m.writer
CanLock_IgnoresReaders(m) == ~m.writer

\* sync.RWMutex: Lock is granted when nobody holds the lock.
CanLock(m) == ~m.writer /\ m.readers = 0

IdleReader == [pc |-> "idle", op |-> "", name |-> "", coll |-> NoStore, obs |-> {}]
\* watchFiles' locals: its place (pc), the metadata the ticker loop still has to
\* visit (queue), reloadIfChanged's md, the event's path, and readCollection's
\* stat.ModTime(), result (coll, err); replaceCollection's old.
IdleWatch == [pc |-> "select", queue |-> <<>>, md |-> NoMetadata, path |-> "",
              statTime |-> ZeroTime, coll |-> NoStore, err |-> "", old |-> NoStore]

\* Index.GetCollections: the metadata of every entry, sorted by Name.
NameOrder == <<"a", "b">>
GetCollections_Unsorted(colls, sts) ==
    LET names == SelectSeq(<<"b", "a">>, LAMBDA n : colls[n] # NoStore)
    IN  [i \in 1..Len(names) |-> sts[colls[names[i]]].metadata]

GetCollections(colls, sts) ==
    LET names == SelectSeq(NameOrder, LAMBDA n : colls[n] # NoStore)
    IN  [i \in 1..Len(names) |-> sts[colls[names[i]]].metadata]

\* Index.getCollectionMetadata: the metadata of the entry whose Path is path, or none.
getCollectionMetadata(colls, sts, path) ==
    LET hit == {n \in Names : colls[n] # NoStore /\ sts[colls[n]].metadata.Path = path}
    IN  IF hit = {} THEN NoMetadata ELSE sts[colls[CHOOSE n \in hit : TRUE]].metadata

\* MakeIndex has returned: every collection was read with threshold t0 (zero)
\* and put into the map; watchFiles is running and waits in its select.
\* Go's garbage collector: a Collection whose file is closed and that neither
\* the map nor any goroutine refers to any more is gone.
Sweep(sts, colls, w, readers) ==
    [i \in Slots |->
        IF /\ sts[i].dataFile = "closed"
           /\ \A n \in Names : colls[n] # i
           /\ w.coll # i /\ w.old # i
           /\ \A r \in Readers : readers[r].coll # i
        THEN Free ELSE sts[i]]

NoCall == [kind |-> "none"]

\* MakeIndex has returned: every collection was read with threshold t0 (zero)
\* and put into the map; watchFiles is running and waits in its select.
IndexInit ==
    /\ files = [n \in Names |-> [mtime |-> BaseTime, doc |-> 1, state |-> "ok"]]
    /\ stores = [i \in Slots |->
                   IF i = 1 THEN [Collection("a", BaseTime, 1) EXCEPT !.built = TRUE]
                   ELSE IF i = 2 THEN [Collection("b", BaseTime, 1) EXCEPT !.built = TRUE]
                   ELSE Free]
    /\ Collections = [n \in Names |-> IF n = "a" THEN 1 ELSE 2]
    /\ mutex = [readers |-> 0, writer |-> FALSE]
    /\ watch = IdleWatch
    /\ closer = "idle"
    /\ rd = [r \in Readers |-> IdleReader]

Init == IndexInit /\ pg = NoCall

(***************************************************************************)
(* The environment: somebody rewrites, touches, damages or removes a       *)
(* collection file.                                                        *)
(***************************************************************************)
FileChange(n) ==
    /\ \E t \in Times, d \in Docs, st \in {"ok", "malformed", "missing"} :
          /\ [mtime |-> t, doc |-> d, state |-> st] # files[n]
          /\ st # "ok" => d = 1
          /\ st = "missing" => t = BaseTime
          /\ files' = [files EXCEPT ![n] = [mtime |-> t, doc |-> d, state |-> st]]
    /\ UNCHANGED <<stores, Collections, mutex, watch, closer, rd, pg>>

(***************************************************************************)
(* watchFiles: the reload goroutine.                                       *)
(***************************************************************************)
\* reloadIfChanged has returned: the ticker loop goes on with the next
\* metadata of its snapshot, otherwise back to the select.
AfterReload(w) ==
    IF w.queue = <<>> THEN IdleWatch
    ELSE [IdleWatch EXCEPT !.pc = "stat", !.md = Head(w.queue), !.queue = Tail(w.queue)]

\* case <-ticker.C: for _, md := range index.GetCollections() { reloadIfChanged(md) }
WatchTick ==
    /\ watch.pc = "select"
    /\ CanRLock(mutex)
    /\ watch' = AfterReload([watch EXCEPT !.queue = GetCollections(Collections, stores)])
    /\ UNCHANGED <<files, stores, Collections, mutex, closer, rd, pg>>

\* case event := <-index.watcher.Events: a Remove event ends the goroutine.
WatchEventReturns(op) == op = "Remove"

WatchEvent ==
    /\ watch.pc = "select"
    /\ \E op \in Ops, path \in Paths :
          watch' = IF WatchEventReturns(op)
                   THEN [IdleWatch EXCEPT !.pc = "exited"]
                   ELSE [IdleWatch EXCEPT !.pc = "lookup", !.path = path]
    /\ UNCHANGED <<files, stores, Collections, mutex, closer, rd, pg>>

\* md := index.getCollectionMetadata(path); if md != nil { reloadIfChanged(*md) }
WatchLookup ==
    /\ watch.pc = "lookup"
    /\ CanLock(mutex)
    /\ LET md == getCollectionMetadata(Collections, stores, watch.path)
       IN  watch' = IF md = NoMetadata THEN IdleWatch
                    ELSE [IdleWatch EXCEPT !.pc = "stat", !.md = md]
    /\ UNCHANGED <<files, stores, Collections, mutex, closer, rd, pg>>

After_NotEqual(t, u) == t # u

After_OrEqual(t, u) == t >= u

\* time.Time.After
After(t, u) == t > u

StatOutcome_NoCheck(f, ifModifiedSince) ==
    IF f.state = "missing" THEN "error" ELSE "continue"

\* readCollection, up to the conditional-reload check: os.Stat fails, or the
\* file is not newer than ifModifiedSince, or the load goes on.
StatOutcome(f, ifModifiedSince) ==
    IF f.state = "missing" THEN "error"
    ELSE IF ~After(f.mtime, ifModifiedSince) THEN "NotModified"
    ELSE "continue"

\* readCollection: ioutil.ReadFile and json.Unmarshal of the file as it is now.
ReadOutcome(f) == IF f.state = "ok" THEN "continue" ELSE "error"

\* The errors of readCollection other than NotModified, by the call that failed.
LoadErrors == {"stat", "read", "tempfile", "write"}

\* reloadIfChanged(md) starts: readCollection stats the file.
WatchStat ==
    /\ watch.pc = "stat"
    /\ LET f == files[watch.md.Name]
           out == StatOutcome(f, watch.md.LastModified)
       IN  watch' = IF out = "continue"
                    THEN [watch EXCEPT !.pc = "read", !.statTime = f.mtime]
                    ELSE IF out = "NotModified"
                    THEN [watch EXCEPT !.pc = "returned", !.statTime = f.mtime,
                                       !.err = "NotModified"]
                    ELSE [watch EXCEPT !.pc = "returned", !.err = "stat"]
    /\ UNCHANGED <<files, stores, Collections, mutex, closer, rd, pg>>

\* readCollection reads and parses the file, then creates the backing file
\* (ioutil.TempFile) of the new Collection; each of them can fail.
WatchRead ==
    /\ watch.pc = "read"
    /\ \E tmpOK \in BOOLEAN, id \in Slots :
          /\ stores[id] = Free
          /\ \A j \in Slots : j < id => stores[j] # Free
          /\ IF ReadOutcome(files[watch.md.Name]) # "continue"
             THEN /\ watch' = [watch EXCEPT !.pc = "returned", !.err = "read"]
                  /\ UNCHANGED stores
             ELSE IF ~tmpOK
             THEN /\ watch' = [watch EXCEPT !.pc = "returned", !.err = "tempfile"]
                  /\ UNCHANGED stores
             ELSE /\ stores' = [stores EXCEPT ![id] =
                                   Collection(watch.md.Name, watch.statTime,
                                              files[watch.md.Name].doc)]
                  /\ watch' = [watch EXCEPT !.pc = "build", !.coll = id]
    /\ UNCHANGED <<files, Collections, mutex, closer, rd, pg>>

\* readCollection writes every feature to the backing file and fills the
\* arrays; a failed write closes the new Collection and returns the error.
WatchBuild ==
    /\ watch.pc = "build"
    /\ \E writeOK \in BOOLEAN :
          IF writeOK
          THEN /\ stores' = [stores EXCEPT ![watch.coll].built = TRUE]
               /\ watch' = [watch EXCEPT !.pc = "returned", !.err = "nil"]
          ELSE /\ watch' = [watch EXCEPT !.pc = "returned", !.err = "write",
                                         !.coll = NoStore]
               /\ stores' = Sweep([stores EXCEPT ![watch.coll] = CollectionClose(@)],
                                  Collections, watch', rd)
    /\ UNCHANGED <<files, Collections, mutex, closer, rd, pg>>

ReloadBranch_ReplaceOnError(err) ==
    IF err = "NotModified" THEN "unchanged" ELSE "replace"

\* reloadIfChanged's branches on readCollection's error: replace the
\* collection, or only log.
ReloadBranch(err) ==
    IF err = "nil" THEN "replace"
    ELSE IF err = "NotModified" THEN "unchanged"
    ELSE "log"

WatchReturned ==
    /\ watch.pc = "returned"
    /\ watch' = IF ReloadBranch(watch.err) = "replace"
                THEN [watch EXCEPT !.pc = "replace"]
                ELSE AfterReload(watch)
    /\ UNCHANGED <<files, stores, Collections, mutex, closer, rd, pg>>

ReplaceLock_NoLock ==
    /\ watch.pc = "replace"
    /\ watch' = [watch EXCEPT !.pc = "replClose"]
    /\ UNCHANGED <<files, stores, Collections, mutex, closer, rd, pg>>

\* replaceCollection: index.mutex.Lock()
ReplaceLock ==
    /\ watch.pc = "replace"
    /\ CanLock(mutex)
    /\ mutex' = [mutex EXCEPT !.writer = TRUE]
    /\ watch' = [watch EXCEPT !.pc = "replClose"]
    /\ UNCHANGED <<files, stores, Collections, closer, rd, pg>>

ReplaceCloseOld_Leak(sts, old) == sts

\* replaceCollection: if old := index.Collections[name]; old != nil { old.Close() }
ReplaceCloseOld(sts, old) ==
    IF old # NoStore THEN [sts EXCEPT ![old] = CollectionClose(@)] ELSE sts

ReplaceClose ==
    /\ watch.pc = "replClose"
    /\ LET old == Collections[watch.md.Name]
       IN  /\ stores' = ReplaceCloseOld(stores, old)
           /\ watch' = [watch EXCEPT !.pc = "replAssign", !.old = old]
    /\ UNCHANGED <<files, Collections, mutex, closer, rd, pg>>

\* replaceCollection: index.Collections[c.metadata.Name] = c
ReplaceAssign ==
    /\ watch.pc = "replAssign"
    /\ Collections' = [Collections EXCEPT ![watch.md.Name] = watch.coll]
    /\ watch' = [watch EXCEPT !.pc = "replUnlock"]
    /\ stores' = Sweep(stores, Collections', watch', rd)
    /\ UNCHANGED <<files, mutex, closer, rd, pg>>

ReplaceUnlock_KeepsLock ==
    /\ watch.pc = "replUnlock"
    /\ watch' = AfterReload(watch)
    /\ stores' = Sweep(stores, Collections, watch', rd)
    /\ UNCHANGED <<files, Collections, mutex, closer, rd, pg>>

\* replaceCollection: the deferred index.mutex.Unlock(); reloadIfChanged returns.
ReplaceUnlock ==
    /\ watch.pc = "replUnlock"
    /\ mutex' = [mutex EXCEPT !.writer = FALSE]
    /\ watch' = AfterReload(watch)
    /\ stores' = Sweep(stores, Collections, watch', rd)
    /\ UNCHANGED <<files, Collections, closer, rd, pg>>

(***************************************************************************)
(* Index.Close                                                             *)
(***************************************************************************)
CloseLock ==
    /\ closer = "idle"
    /\ CanLock(mutex)
    /\ mutex' = [mutex EXCEPT !.writer = TRUE]
    /\ closer' = "locked"
    /\ UNCHANGED <<files, stores, Collections, watch, rd, pg>>

\* for _, c := range index.Collections { c.Close(); ... }; index.Collections = make(...)
CloseAll ==
    /\ closer = "locked"
    /\ Collections' = [n \in Names |-> NoStore]
    /\ stores' = Sweep([i \in Slots |->
                          IF \E n \in Names : Collections[n] = i
                          THEN CollectionClose(stores[i]) ELSE stores[i]],
                       Collections', watch, rd)
    /\ closer' = "unlock"
    /\ UNCHANGED <<files, mutex, watch, rd, pg>>

CloseUnlock ==
    /\ closer = "unlock"
    /\ mutex' = [mutex EXCEPT !.writer = FALSE]
    /\ closer' = "done"
    /\ UNCHANGED <<files, stores, Collections, watch, rd, pg>>

(***************************************************************************)
(* Requests: GetItems, GetItem and GetTile, each under the read lock.      *)
(***************************************************************************)
\* What a read of Collection id yields at this moment: the generation the
\* in-memory arrays belong to, and for a ReadAt of the backing file the
\* generation of the bytes, or "EBADF" when the file was closed and removed.
Generation(c) == <<c.metadata.Name, c.metadata.LastModified, c.doc>>

Observe(what, id, name) ==
    [what |-> what, store |-> id, built |-> stores[id].built,
     gen |-> IF what = "bytes" /\ stores[id].dataFile # "open" THEN <<"EBADF">>
             ELSE Generation(stores[id]),
     active |-> Collections[name] = id]

\* index.mutex.RLock(); defer index.mutex.RUnlock();
\* coll := index.Collections[collection]; if coll == nil { return ... NotFound }
\* then the lookup in coll.byID (GetItem, GetItems) or the scan of coll.bbox.
ReaderBegin(r) ==
    /\ rd[r].pc = "idle"
    /\ CanRLock(mutex)
    /\ \E op \in {"GetItems", "GetItem", "GetTile"}, n \in Changing :
          LET id == Collections[n]
          IN  IF id = NoStore
              THEN UNCHANGED <<rd, mutex>>
              ELSE /\ rd' = [rd EXCEPT ![r] =
                               [pc |-> "read", op |-> op, name |-> n, coll |-> id,
                                obs |-> {Observe(IF op = "GetTile" THEN "bbox" ELSE "byID",
                                                 id, n)}]]
                   /\ mutex' = [mutex EXCEPT !.readers = @ + 1]
    /\ UNCHANGED <<files, stores, Collections, watch, closer, pg>>

\* The rest of the call under the lock: coll.dataFile.ReadAt (GetItem,
\* GetItems) or coll.webMercator (GetTile), then the result: the feature
\* parsed from the bytes (GetItem) or coll.metadata, copied by value.
ReaderRead(r) ==
    /\ rd[r].pc = "read"
    /\ rd' = [rd EXCEPT ![r].pc = "unlock",
                 ![r].obs = @ \cup
                    { Observe(IF rd[r].op = "GetTile" THEN "webMercator" ELSE "bytes",
                              rd[r].coll, rd[r].name),
                      Observe(IF rd[r].op = "GetItem" THEN "feature" ELSE "metadata",
                              rd[r].coll, rd[r].name) }]
    /\ UNCHANGED <<files, stores, Collections, mutex, watch, closer, pg>>

\* the deferred index.mutex.RUnlock()
ReaderRUnlock(r) ==
    /\ rd[r].pc = "unlock"
    /\ rd' = [rd EXCEPT ![r] = IdleReader]
    /\ mutex' = [mutex EXCEPT !.readers = @ - 1]
    /\ stores' = Sweep(stores, Collections, watch, rd')
    /\ UNCHANGED <<files, Collections, watch, closer, pg>>

Next ==
    \/ \E n \in Changing : FileChange(n)
    \/ WatchTick \/ WatchEvent \/ WatchLookup
    \/ WatchStat \/ WatchRead \/ WatchBuild \/ WatchReturned
    \/ ReplaceLock \/ ReplaceClose \/ ReplaceAssign \/ ReplaceUnlock
    \/ CloseLock \/ CloseAll \/ CloseUnlock
    \/ \E r \in Readers : ReaderBegin(r) \/ ReaderRead(r) \/ ReaderRUnlock(r)

Spec == Init /\ [][Next]_vars

(***************************************************************************)
(* GetItems as a function of one Collection and the request.               *)
(*                                                                         *)
(* A feature is [id, rect]: the ID readCollection derived ("" = none) and  *)
(* its bounding rectangle, a set of cells of a small map (s2.Rect up to    *)
(* what Intersects can tell apart).  Storage indices count from 0 as in    *)
(* the code; feature i is features[i + 1].                                 *)
(***************************************************************************)
DefaultLimit == 10
MaxLimit == 10000

MaxFeatures == 3                    \* features of a collection
TicksPerSecond == 4                 \* resolution of the clock: ticks in one second
MaxSeconds == 4                     \* the clock's range, in seconds

Cells == {1, 2}
\* The strip of the map between cell 1 and cell 2, thinner than half of the
\* seventh decimal of a degree: what a rectangle covers beyond cell 1 when
\* its edge lies that little beyond the border of the cell.
Sliver == 0
EmptyRect == {}                     \* s2.EmptyRect()
FullRect == Cells \cup {Sliver}     \* s2.FullRect()
\* s2.Rect.Intersects: an empty rectangle intersects nothing.
Intersects(a, b) == a \cap b # {}

FeatureIDs == {"", "A", "B"}
FeatureRects == {EmptyRect, {1}, {2}}
Features == [id : FeatureIDs, rect : FeatureRects]
Bboxes == {EmptyRect, {1}, FullRect}

\* coll.byID as readCollection fills it: byID[id] = i for every feature with a
\* non-empty ID, a later feature overwriting an earlier one with the same ID.
HasID(features, id) == id # "" /\ \E i \in 1..Len(features) : features[i].id = id
ByID(features, id) ==
    (CHOOSE i \in 1..Len(features) :
        /\ features[i].id = id
        /\ \A j \in 1..Len(features) : features[j].id = id => j <= i) - 1

\* time.Time.Round(time.Second): to the nearest second, halfway values up.
Round(t) ==
    LET r == t % TicksPerSecond
    IN  IF r + r < TicksPerSecond THEN t - r ELSE t + TicksPerSecond - r

\* time.Time.IsZero
IsZero(t) == t = ZeroTime

Precondition_ModifiedSinceFirst(lastModified, ifModifiedSince, ifUnmodifiedSince) ==
    LET lm == Round(lastModified)
    IN  IF ~IsZero(ifModifiedSince) /\ ~(lm > Round(ifModifiedSince)) THEN "NotModified"
        ELSE IF ~IsZero(ifUnmodifiedSince) /\ lm > Round(ifUnmodifiedSince) THEN "Modified"
        ELSE "nil"

Precondition_NoEqual(lastModified, ifModifiedSince, ifUnmodifiedSince) ==
    LET lm == Round(lastModified)
    IN  IF ~IsZero(ifUnmodifiedSince) /\ lm > Round(ifUnmodifiedSince) THEN "Modified"
        ELSE IF ~IsZero(ifModifiedSince) /\ lm < Round(ifModifiedSince) THEN "NotModified"
        ELSE "nil"

\* GetItems: the conditional-request checks against the rounded LastModified.
Precondition(lastModified, ifModifiedSince, ifUnmodifiedSince) ==
    LET lm == Round(lastModified)
    IN  IF ~IsZero(ifUnmodifiedSince) /\ After(lm, Round(ifUnmodifiedSince)) THEN "Modified"
        ELSE IF ~IsZero(ifModifiedSince) /\ ~After(lm, Round(ifModifiedSince)) THEN "NotModified"
        ELSE "nil"

ClampLimit_NoClamp(limit) == limit

\* GetItems: limit clamped to 1..MaxLimit.
ClampLimit(limit) == IF limit < 1 THEN 1 ELSE IF limit > MaxLimit THEN MaxLimit ELSE limit

EffectiveStart_IgnoresID(features, startID, startIndex) ==
    IF startIndex < 0 THEN 0 ELSE startIndex

EffectiveStart_UnknownIsZero(features, startID, startIndex) ==
    IF HasID(features, startID) THEN ByID(features, startID)
    ELSE IF startID # "" \/ startIndex < 0 THEN 0 ELSE startIndex

\* GetItems: a known startID replaces startIndex; a negative startIndex is 0.
EffectiveStart(features, startID, startIndex) ==
    LET s == IF HasID(features, startID) THEN ByID(features, startID) ELSE startIndex
    IN  IF s < 0 THEN 0 ELSE s

RECURSIVE ScanFrom_LimitPlusOne(_, _, _, _, _, _)
ScanFrom_LimitPlusOne(features, bbox, limit, i, skip, emitted) ==
    IF i > Len(features)
    THEN [emitted |-> emitted, nextID |-> "", nextIndex |-> 0]
    ELSE IF ~Intersects(bbox, features[i].rect)
    THEN ScanFrom_LimitPlusOne(features, bbox, limit, i + 1, skip, emitted)
    ELSE IF Len(emitted) > limit
    THEN [emitted |-> emitted, nextID |-> features[i].id, nextIndex |-> i - 1]
    ELSE IF skip > 0
    THEN ScanFrom_LimitPlusOne(features, bbox, limit, i + 1, skip - 1, emitted)
    ELSE ScanFrom_LimitPlusOne(features, bbox, limit, i + 1, skip, Append(emitted, i - 1))

RECURSIVE ScanFrom_SkipsAny(_, _, _, _, _, _)
ScanFrom_SkipsAny(features, bbox, limit, i, skip, emitted) ==
    IF i > Len(features)
    THEN [emitted |-> emitted, nextID |-> "", nextIndex |-> 0]
    ELSE IF skip > 0
    THEN ScanFrom_SkipsAny(features, bbox, limit, i + 1, skip - 1, emitted)
    ELSE IF ~Intersects(bbox, features[i].rect)
    THEN ScanFrom_SkipsAny(features, bbox, limit, i + 1, skip, emitted)
    ELSE IF Len(emitted) >= limit
    THEN [emitted |-> emitted, nextID |-> features[i].id, nextIndex |-> i - 1]
    ELSE ScanFrom_SkipsAny(features, bbox, limit, i + 1, skip, Append(emitted, i - 1))

\* GetItems: the loop over coll.bbox, from storage index i - 1 on, with skip
\* matching features still to pass over and emitted the indices written so far.
RECURSIVE ScanFrom(_, _, _, _, _, _)
ScanFrom(features, bbox, limit, i, skip, emitted) ==
    IF i > Len(features)
    THEN [emitted |-> emitted, nextID |-> "", nextIndex |-> 0]
    ELSE IF ~Intersects(bbox, features[i].rect)
    THEN ScanFrom(features, bbox, limit, i + 1, skip, emitted)
    ELSE IF Len(emitted) >= limit
    THEN [emitted |-> emitted, nextID |-> features[i].id, nextIndex |-> i - 1]
    ELSE IF skip > 0
    THEN ScanFrom(features, bbox, limit, i + 1, skip - 1, emitted)
    ELSE ScanFrom(features, bbox, limit, i + 1, skip, Append(emitted, i - 1))

\* fmt.Sprintf("bbox=%.7f,%.7f,%.7f,%.7f", ...): every edge goes to the
\* nearest value with seven decimals, which for an edge in the sliver is the
\* border of cells 1 and 2.
RoundRect(r) ==
    IF Sliver \in r /\ 2 \notin r THEN r \ {Sliver}
    ELSE IF 2 \in r /\ Sliver \notin r THEN r \cup {Sliver}
    ELSE r

\* FormatItemsURL: the query parameters of an items link; a parameter with its
\* default value is left out (<<>>), as is a full or an empty bbox.
FormatItemsURL(collection, startID, start, limit, bbox) ==
    [collection |-> collection,
     startID |-> IF startID # "" THEN <<startID>> ELSE <<>>,
     start |-> IF start > 0 THEN <<start>> ELSE <<>>,
     limit |-> IF limit # DefaultLimit THEN <<limit>> ELSE <<>>,
     bbox |-> IF bbox # FullRect /\ bbox # EmptyRect THEN <<RoundRect(bbox)>> ELSE <<>>]

NoLink == [collection |-> ""]

\* handleCollectionRequest: the GetItems arguments read from a link's query.
ParseItemsURL(u) ==
    [collection |-> u.collection,
     startID |-> IF u.startID = <<>> THEN "" ELSE u.startID[1],
     start |-> IF u.start = <<>> THEN 0 ELSE u.start[1],
     limit |-> IF u.limit = <<>> THEN DefaultLimit ELSE u.limit[1],
     bbox |-> IF u.bbox = <<>> THEN FullRect ELSE u.bbox[1]]

GetItems_NextIsStart(coll, startID, startIndex, limit, bbox, ifModifiedSince, ifUnmodifiedSince) ==
    LET pre == Precondition(coll.metadata.LastModified, ifModifiedSince, ifUnmodifiedSince)
        lim == ClampLimit(limit)
        start == EffectiveStart(coll.features, startID, startIndex)
        scan == ScanFrom(coll.features, bbox, lim, 1, start, <<>>)
        name == coll.metadata.Name
    IN  IF pre # "nil"
        THEN [err |-> pre, metadata |-> coll.metadata, emitted |-> <<>>,
              self |-> NoLink, next |-> NoLink]
        ELSE [err |-> "nil", metadata |-> coll.metadata, emitted |-> scan.emitted,
              self |-> FormatItemsURL(name, startID, start, lim, bbox),
              next |-> IF scan.nextIndex > 0
                       THEN FormatItemsURL(name, scan.nextID, start, lim, bbox)
                       ELSE NoLink]

\* Index.GetItems on a collection that is in the map, writing to a sink that
\* takes every write: the error, the metadata, the storage indices of the
\* features written, and the self and next links of the footer.
GetItems(coll, startID, startIndex, limit, bbox, ifModifiedSince, ifUnmodifiedSince) ==
    LET pre == Precondition(coll.metadata.LastModified, ifModifiedSince, ifUnmodifiedSince)
        lim == ClampLimit(limit)
        start == EffectiveStart(coll.features, startID, startIndex)
        scan == ScanFrom(coll.features, bbox, lim, 1, start, <<>>)
        name == coll.metadata.Name
    IN  IF pre # "nil"
        THEN [err |-> pre, metadata |-> coll.metadata, emitted |-> <<>>,
              self |-> NoLink, next |-> NoLink]
        ELSE [err |-> "nil", metadata |-> coll.metadata, emitted |-> scan.emitted,
              self |-> FormatItemsURL(name, startID, start, lim, bbox),
              next |-> IF scan.nextIndex > 0
                       THEN FormatItemsURL(name, scan.nextID, scan.nextIndex, lim, bbox)
                       ELSE NoLink]

\* All collections of at most MaxFeatures features.
RECURSIVE SeqsUpTo(_, _)
SeqsUpTo(S, n) ==
    IF n = 0 THEN {<<>>}
    ELSE LET shorter == SeqsUpTo(S, n - 1)
         IN  shorter \cup {Append(q, x) : q \in {t \in shorter : Len(t) = n - 1}, x \in S}

PageColl(features) == [metadata |-> CollectionMetadata("a", BaseTime), features |-> features]

(***************************************************************************)
(* A client that pages through a collection held fixed: it starts with no  *)
(* cursor and follows the next link of every page until there is none.     *)
(***************************************************************************)
PageInit ==
    /\ IndexInit
    /\ \E fs \in SeqsUpTo(Features, MaxFeatures), bbox \in Bboxes,
          limit \in {1, 2, DefaultLimit} :
          pg = [kind |-> "page", features |-> fs, bbox |-> bbox, limit |-> limit,
                req |-> [collection |-> "a", startID |-> "", start |-> 0,
                         limit |-> limit, bbox |-> bbox],
                out |-> <<>>, pages |-> 0, done |-> FALSE]

\* One request: GetItems with the arguments of the last next link.
PageRequest ==
    /\ pg.kind = "page" /\ ~pg.done
    /\ LET res == GetItems(PageColl(pg.features), pg.req.startID, pg.req.start,
                           pg.req.limit, pg.req.bbox, ZeroTime, ZeroTime)
       IN  pg' = [pg EXCEPT !.out = @ \o res.emitted,
                            !.pages = @ + 1,
                            !.done = res.next = NoLink,
                            !.req = IF res.next = NoLink THEN @ ELSE ParseItemsURL(res.next)]
    /\ UNCHANGED <<files, stores, Collections, mutex, watch, closer, rd>>

PageSpec == PageInit /\ [][PageRequest]_vars

(***************************************************************************)
(* The same client on collections whose features all have an ID and a      *)
(* location, as the castles of TestGetItems_LimitExceeded have.            *)
(***************************************************************************)
LocatedFeatures == [id : {"A", "B", "C"}, rect : {{1}, {2}}]

LocatedInit ==
    /\ IndexInit
    /\ \E fs \in SeqsUpTo(LocatedFeatures, MaxFeatures), bbox \in {{1}, FullRect},
          limit \in {1, 2, DefaultLimit} :
          pg = [kind |-> "page", features |-> fs, bbox |-> bbox, limit |-> limit,
                req |-> [collection |-> "a", startID |-> "", start |-> 0,
                         limit |-> limit, bbox |-> bbox],
                out |-> <<>>, pages |-> 0, done |-> FALSE]

LocatedSpec == LocatedInit /\ [][PageRequest]_vars

(***************************************************************************)
(* A client that sends one conditional request.                            *)
(***************************************************************************)
Second == TicksPerSecond
ClockTimes == Second..(MaxSeconds * Second)     \* times that are not the zero time

CondInit ==
    /\ IndexInit
    /\ \E lm \in (2 * Second)..(MaxSeconds * Second), ims \in {ZeroTime} \cup ClockTimes,
          ius \in {ZeroTime} \cup ClockTimes :
          pg = [kind |-> "cond", lastModified |-> lm, ifModifiedSince |-> ims,
                ifUnmodifiedSince |-> ius, err |-> "pending"]

CondRequest ==
    /\ pg.kind = "cond" /\ pg.err = "pending"
    /\ pg' = [pg EXCEPT !.err =
                GetItems([metadata |-> CollectionMetadata("a", pg.lastModified),
                          features |-> <<>>],
                         "", 0, DefaultLimit, FullRect,
                         pg.ifModifiedSince, pg.ifUnmodifiedSince).err]
    /\ UNCHANGED <<files, stores, Collections, mutex, watch, closer, rd>>

CondSpec == CondInit /\ [][CondRequest]_vars

(***************************************************************************)
(* GetItems as the Index serves it: the lookup in index.Collections and    *)
(* the writes to the output sink.  An index is the map itself, a function  *)
(* from the names it holds to their Collection; a sink is an io.Writer     *)
(* whose failAt-th Write fails (0: none does).                             *)
(***************************************************************************)
NoSuchCollection == "no-such-collection"

\* The calls of out.Write a run to the end makes: the header, the bytes of
\* every feature with a ',' before all but the first, the closing bracket
\* and the footer with the links.
RECURSIVE FeatureWrites(_, _)
FeatureWrites(emitted, k) ==
    IF k > Len(emitted) THEN <<>>
    ELSE (IF k > 1 THEN << <<",">> >> ELSE <<>>)
         \o << <<"feature", emitted[k]>> >> \o FeatureWrites(emitted, k + 1)

Writes(emitted) ==
    << <<"header">> >> \o FeatureWrites(emitted, 1) \o << <<"],">>, <<"footer">> >>

WriteAll_LastErrorOnly(sink, writes) ==
    [calls |-> writes, err |-> IF sink.failAt = Len(writes) THEN "EIO" ELSE "nil"]

\* Every out.Write is followed by: if err != nil { return CollectionMetadata{}, err }.
\* The calls made are those up to and including the first that fails.
WriteAll(sink, writes) ==
    IF sink.failAt \in 1..Len(writes)
    THEN [calls |-> SubSeq(writes, 1, sink.failAt), err |-> "EIO"]
    ELSE [calls |-> writes, err |-> "nil"]

IndexGetItems_HeaderFirst(index, collection, startID, startIndex, limit, bbox, ifModifiedSince, ifUnmodifiedSince, sink) ==
    IF collection \notin DOMAIN index
    THEN [err |-> "NotFound", metadata |-> NoMetadata, calls |-> << <<"header">> >>,
          self |-> NoLink, next |-> NoLink]
    ELSE LET res == GetItems(index[collection], startID, startIndex, limit, bbox,
                             ifModifiedSince, ifUnmodifiedSince)
             out == WriteAll(sink, Writes(res.emitted))
         IN  IF res.err # "nil"
             THEN [err |-> res.err, metadata |-> res.metadata,
                   calls |-> << <<"header">> >>, self |-> NoLink, next |-> NoLink]
             ELSE IF out.err # "nil"
             THEN [err |-> out.err, metadata |-> NoMetadata, calls |-> out.calls,
                   self |-> NoLink, next |-> NoLink]
             ELSE [err |-> "nil", metadata |-> res.metadata, calls |-> out.calls,
                   self |-> res.self, next |-> res.next]

\* Index.GetItems: the outcome, the metadata returned, the calls of out.Write
\* made, and the links of the footer when it was written.
IndexGetItems(index, collection, startID, startIndex, limit, bbox, ifModifiedSince, ifUnmodifiedSince, sink) ==
    IF collection \notin DOMAIN index
    THEN [err |-> "NotFound", metadata |-> NoMetadata, calls |-> <<>>,
          self |-> NoLink, next |-> NoLink]
    ELSE LET res == GetItems(index[collection], startID, startIndex, limit, bbox,
                             ifModifiedSince, ifUnmodifiedSince)
             out == WriteAll(sink, Writes(res.emitted))
         IN  IF res.err # "nil"
             THEN [err |-> res.err, metadata |-> res.metadata, calls |-> <<>>,
                   self |-> NoLink, next |-> NoLink]
             ELSE IF out.err # "nil"
             THEN [err |-> out.err, metadata |-> NoMetadata, calls |-> out.calls,
                   self |-> NoLink, next |-> NoLink]
             ELSE [err |-> "nil", metadata |-> res.metadata, calls |-> out.calls,
                   self |-> res.self, next |-> res.next]

\* The index of a call: collection "a" with the features and the modification
\* time of the request at hand.
CallIndex(features, lastModified) ==
    [n \in {"a"} |-> [metadata |-> CollectionMetadata(n, lastModified), features |-> features]]

Pending == [err |-> "pending"]

\* One call of Index.GetItems with the arguments held in pg.
CallRequest ==
    /\ pg.kind = "call" /\ pg.res = Pending
    /\ pg' = [pg EXCEPT !.res =
                IndexGetItems(CallIndex(pg.features, pg.lastModified), pg.collection,
                              pg.startID, pg.startIndex, pg.limit, pg.bbox,
                              pg.ifModifiedSince, pg.ifUnmodifiedSince,
                              [failAt |-> pg.failAt])]
    /\ UNCHANGED <<files, stores, Collections, mutex, watch, closer, rd>>

Call(collection, features, lastModified, startID, startIndex, limit, bbox, ifModifiedSince, ifUnmodifiedSince, failAt) ==
    [kind |-> "call", collection |-> collection, features |-> features,
     lastModified |-> lastModified, startID |-> startID, startIndex |-> startIndex,
     limit |-> limit, bbox |-> bbox, ifModifiedSince |-> ifModifiedSince,
     ifUnmodifiedSince |-> ifUnmodifiedSince, failAt |-> failAt, res |-> Pending]

(***************************************************************************)
(* A client that sends one conditional request for a collection that is    *)
(* in the index or is not.                                                 *)
(***************************************************************************)
OneFeature == << [id |-> "A", rect |-> {1}] >>

PreInit ==
    /\ IndexInit
    /\ \E c \in {"a", NoSuchCollection}, lm \in (2 * Second)..(MaxSeconds * Second),
          ims \in {ZeroTime} \cup ClockTimes, ius \in {ZeroTime} \cup ClockTimes :
          pg = Call(c, OneFeature, lm, "", 0, DefaultLimit, FullRect, ims, ius, 0)

PreSpec == PreInit /\ [][CallRequest]_vars

(***************************************************************************)
(* A client that asks for one page with a cursor and a limit of its own    *)
(* choosing: a startID that is or is not an ID of the collection, a        *)
(* startIndex and a limit inside or outside their ranges.                  *)
(***************************************************************************)
StartIDs == {"", "A", "Z"}
StartIndexes == (0 - 1)..(MaxFeatures - 1)
Limits == {0 - 1, 0, 1, MaxLimit, MaxLimit + 1}

StartInit ==
    /\ IndexInit
    /\ \E fs \in SeqsUpTo(Features, MaxFeatures), bbox \in {{1}, FullRect} :
          \/ \E startID \in StartIDs, startIndex \in StartIndexes, limit \in {1, 2} :
                pg = Call("a", fs, BaseTime, startID, startIndex, limit, bbox,
                          ZeroTime, ZeroTime, 0)
          \/ \E startIndex \in {0 - 1, 0, 1}, limit \in Limits :
                pg = Call("a", fs, BaseTime, "", startIndex, limit, bbox,
                          ZeroTime, ZeroTime, 0)

StartSpec == StartInit /\ [][CallRequest]_vars

(***************************************************************************)
(* A client that asks for one page of a part of the map: its bbox is cell  *)
(* 1, or cell 1 and the strip beyond it, or everything, and the features   *)
(* lie in a cell, in the strip, or nowhere.                                *)
(***************************************************************************)
PlacedFeatures == [id : {"", "A"}, rect : {EmptyRect, {Sliver}, {1}, {2}}]

NextInit ==
    /\ IndexInit
    /\ \E fs \in SeqsUpTo(PlacedFeatures, MaxFeatures),
          bbox \in {{1}, {Sliver, 1}, FullRect},
          startIndex \in {0, 1}, limit \in {0, 1, 2, DefaultLimit} :
          pg = Call("a", fs, BaseTime, "", startIndex, limit, bbox, ZeroTime, ZeroTime, 0)

NextSpec == NextInit /\ [][CallRequest]_vars

(***************************************************************************)
(* A client that is paging while the collection is reloaded: it gets one   *)
(* page, the store is replaced by one read from the rewritten file, and    *)
(* the client follows the next link of its page.                           *)
(***************************************************************************)
ReloadFeatures == [id : {"A", "B"}, rect : {{1}, {2}}]

ReloadInit ==
    /\ IndexInit
    /\ \E old \in SeqsUpTo(ReloadFeatures, MaxFeatures),
          new \in SeqsUpTo(ReloadFeatures, MaxFeatures),
          bbox \in {{1}, FullRect}, limit \in {1, 2} :
          pg = [kind |-> "reload", features |-> old, file |-> new, pc |-> "first",
                req |-> [collection |-> "a", startID |-> "", start |-> 0,
                         limit |-> limit, bbox |-> bbox],
                first |-> Pending, second |-> Pending]

\* GetItems on the store in the map, with the arguments of the request.
ReloadGetItems ==
    GetItems(PageColl(pg.features), pg.req.startID, pg.req.start, pg.req.limit,
             pg.req.bbox, ZeroTime, ZeroTime)

ReloadFirstPage ==
    /\ pg.kind = "reload" /\ pg.pc = "first"
    /\ LET res == ReloadGetItems
       IN  pg' = [pg EXCEPT !.first = res,
                            !.pc = IF res.next = NoLink THEN "done" ELSE "replace",
                            !.req = IF res.next = NoLink THEN @ ELSE ParseItemsURL(res.next)]
    /\ UNCHANGED <<files, stores, Collections, mutex, watch, closer, rd>>

\* reloadIfChanged: readCollection of the rewritten file and replaceCollection.
ReloadReplace ==
    /\ pg.kind = "reload" /\ pg.pc = "replace"
    /\ pg' = [pg EXCEPT !.features = pg.file, !.pc = "second"]
    /\ UNCHANGED <<files, stores, Collections, mutex, watch, closer, rd>>

ReloadSecondPage ==
    /\ pg.kind = "reload" /\ pg.pc = "second"
    /\ pg' = [pg EXCEPT !.second = ReloadGetItems, !.pc = "done"]
    /\ UNCHANGED <<files, stores, Collections, mutex, watch, closer, rd>>

ReloadNext == ReloadFirstPage \/ ReloadReplace \/ ReloadSecondPage

ReloadSpec == ReloadInit /\ [][ReloadNext]_vars

(***************************************************************************)
(* A client whose connection breaks: the sink fails at one of its writes.  *)
(***************************************************************************)
MaxWrites == 2 * MaxFeatures + 2

SinkInit ==
    /\ IndexInit
    /\ \E fs \in SeqsUpTo(Features, MaxFeatures), bbox \in {{1}, FullRect},
          limit \in {1, 2, DefaultLimit}, failAt \in 0..(MaxWrites + 1) :
          pg = Call("a", fs, BaseTime, "", 0, limit, bbox, ZeroTime, ZeroTime, failAt)

SinkSpec == SinkInit /\ [][CallRequest]_vars

(***************************************************************************)
(* GetItem: one feature, read back from the backing file.  The file is a   *)
(* sequence of bytes; readCollection writes a header, the features with    *)
(* ",\n" between them and a trailer, and notes where every feature starts. *)
(***************************************************************************)
FileHeader == <<"[", "\n">>
FileSeparator == <<",", "\n">>
FileTrailer == <<"\n", "]", "}", "\n">>

\* json.Marshal of a feature: the ID is left out when there is none.
Marshal(f) == <<"{">> \o (IF f.id = "" THEN <<>> ELSE <<"id", f.id>>) \o <<f.rect, "}">>

\* json.Unmarshal of the bytes of one feature; an error for other bytes.
Unmarshal(b) ==
    IF Len(b) = 3 /\ b[1] = "{" /\ b[3] = "}"
    THEN [err |-> "nil", feature |-> [id |-> "", rect |-> b[2]]]
    ELSE IF Len(b) = 5 /\ b[1] = "{" /\ b[2] = "id" /\ b[5] = "}"
    THEN [err |-> "nil", feature |-> [id |-> b[3], rect |-> b[4]]]
    ELSE [err |-> "json", feature |-> [id |-> "", rect |-> {}]]

RECURSIVE WriteFeatures_OffsetBeforeSeparator(_, _, _, _)
WriteFeatures_OffsetBeforeSeparator(features, i, data, offset) ==
    IF i > Len(features)
    THEN [data |-> data \o FileTrailer, offset |-> Append(offset, Len(data) + 2)]
    ELSE LET sep == IF i > 1 THEN data \o FileSeparator ELSE data
         IN  WriteFeatures_OffsetBeforeSeparator(features, i + 1, sep \o Marshal(features[i]),
                                                 Append(offset, Len(data)))

\* readCollection: the loop that writes the features, from feature i on, with
\* the bytes written and the offsets noted so far; at the end
\* offset[len] = pos + 2 and the trailer.
RECURSIVE WriteFeatures(_, _, _, _)
WriteFeatures(features, i, data, offset) ==
    IF i > Len(features)
    THEN [data |-> data \o FileTrailer, offset |-> Append(offset, Len(data) + 2)]
    ELSE LET sep == IF i > 1 THEN data \o FileSeparator ELSE data
         IN  WriteFeatures(features, i + 1, sep \o Marshal(features[i]),
                           Append(offset, Len(sep)))

\* coll.dataFile and coll.offset of a collection; offset[i] of the code is offset[i + 1].
DataFile(features) == WriteFeatures(features, 1, FileHeader, <<>>)

\* os.File.ReadAt: n bytes from position off, io.EOF when the file is shorter.
ReadAt(data, n, off) ==
    IF off < 0 \/ n < 0 \/ off + n > Len(data)
    THEN [err |-> "EOF", b |-> <<>>]
    ELSE [err |-> "nil", b |-> SubSeq(data, off + 1, off + n)]

\* GetItems: the bytes of the feature at storage index i that it writes to
\* out, the write <<"feature", i>>: jsonLen bytes read at coll.offset[i].
FeatureBytes(features, i) ==
    LET file == DataFile(features)
        jsonLen == file.offset[i + 2] - file.offset[i + 1] - 2
    IN  ReadAt(file.data, jsonLen, file.offset[i + 1]).b

NoFeature == <<>>                   \* a nil *geojson.Feature

GetItem_NotFoundError(index, collection, id) ==
    IF collection \notin DOMAIN index
    THEN [feature |-> NoFeature, err |-> "NotFound"]
    ELSE LET coll == index[collection]
             file == DataFile(coll.features)
         IN  IF ~HasID(coll.features, id)
             THEN [feature |-> NoFeature, err |-> "nil"]
             ELSE LET i == ByID(coll.features, id)
                      offset == file.offset[i + 1]
                      jsonLen == file.offset[i + 2] - offset - 2
                      read == ReadAt(file.data, jsonLen, offset)
                      result == Unmarshal(read.b)
                  IN  IF read.err # "nil" THEN [feature |-> NoFeature, err |-> read.err]
                      ELSE IF result.err # "nil"
                      THEN [feature |-> NoFeature, err |-> result.err]
                      ELSE [feature |-> <<result.feature>>, err |-> "nil"]

\* Index.GetItem: the feature (<<f>>) or none, and the error.
GetItem(index, collection, id) ==
    IF collection \notin DOMAIN index
    THEN [feature |-> NoFeature, err |-> "nil"]
    ELSE LET coll == index[collection]
             file == DataFile(coll.features)
         IN  IF ~HasID(coll.features, id)
             THEN [feature |-> NoFeature, err |-> "nil"]
             ELSE LET i == ByID(coll.features, id)
                      offset == file.offset[i + 1]
                      jsonLen == file.offset[i + 2] - offset - 2
                      read == ReadAt(file.data, jsonLen, offset)
                      result == Unmarshal(read.b)
                  IN  IF read.err # "nil" THEN [feature |-> NoFeature, err |-> read.err]
                      ELSE IF result.err # "nil"
                      THEN [feature |-> NoFeature, err |-> result.err]
                      ELSE [feature |-> <<result.feature>>, err |-> "nil"]

ItemInit ==
    /\ IndexInit
    /\ \E c \in {"a", NoSuchCollection}, fs \in SeqsUpTo(Features, MaxFeatures),
          id \in {"", "A", "B", "Z"} :
          pg = [kind |-> "item", collection |-> c, features |-> fs, id |-> id,
                res |-> Pending]

ItemRequest ==
    /\ pg.kind = "item" /\ pg.res = Pending
    /\ pg' = [pg EXCEPT !.res = GetItem(CallIndex(pg.features, BaseTime), pg.collection, pg.id)]
    /\ UNCHANGED <<files, stores, Collections, mutex, watch, closer, rd>>

ItemSpec == ItemInit /\ [][ItemRequest]_vars

(***************************************************************************)
(* The items request over HTTP: the conditional headers carry a date at    *)
(* whole-second resolution.  A header value is <<"date", s>> for the date  *)
(* s seconds after the zero time, <<"junk">> for text that is no date, and *)
(* <<>> when the header is absent.                                         *)
(***************************************************************************)
Hour == 3600 * Second

\* time.Time.Format(http.TimeFormat): the layout has no fractional seconds;
\* the sub-second part of t is dropped.
FormatHTTPTime(t) == <<"date", t \div TicksPerSecond>>

\* http.ParseTime: the time of a date, the zero time (and an error) otherwise.
ParseTime(h) ==
    IF Len(h) = 2 /\ h[1] = "date" THEN h[2] * TicksPerSecond ELSE ZeroTime

StatusOK == 200
StatusNotModified == 304
StatusNotFound == 404
StatusPreconditionFailed == 412
StatusInternalServerError == 500

getHTTPStatus(err) ==
    CASE err = "nil" -> StatusOK
      [] err = "Modified" -> StatusPreconditionFailed
      [] err = "NotFound" -> StatusNotFound
      [] err = "NotModified" -> StatusNotModified
      [] OTHER -> StatusInternalServerError

\* handleCollectionRequest without query parameters: the status of the response.
handleCollectionRequest(index, collection, ifModifiedSinceHeader, ifUnmodifiedSinceHeader) ==
    LET ifModifiedSince == ParseTime(ifModifiedSinceHeader)
        ifUnmodifiedSince == ParseTime(ifUnmodifiedSinceHeader)
        res == IndexGetItems(index, collection, "", 0, DefaultLimit, FullRect,
                             ifModifiedSince, ifUnmodifiedSince, [failAt |-> 0])
    IN  getHTTPStatus(res.err)

\* The header values a client derives from the modification time M of the
\* collection's file, as TestCollection_IfModifiedSince does.
HeaderKinds == {"none", "junk", "past", "present", "future"}
HeaderFor(kind, M) ==
    CASE kind = "none" -> <<>>
      [] kind = "junk" -> <<"junk">>
      [] kind = "past" -> FormatHTTPTime(M - Hour)
      [] kind = "present" -> FormatHTTPTime(M)
      [] kind = "future" -> FormatHTTPTime(M + Hour)

HttpInit ==
    /\ IndexInit
    /\ \E M \in (Hour + Second)..(Hour + MaxSeconds * Second),
          ims \in HeaderKinds, ius \in HeaderKinds :
          pg = [kind |-> "http", lastModified |-> M, ifModifiedSince |-> ims,
                ifUnmodifiedSince |-> ius, status |-> 0]

HttpRequest ==
    /\ pg.kind = "http" /\ pg.status = 0
    /\ pg' = [pg EXCEPT !.status =
                handleCollectionRequest(CallIndex(OneFeature, pg.lastModified), "a",
                                        HeaderFor(pg.ifModifiedSince, pg.lastModified),
                                        HeaderFor(pg.ifUnmodifiedSince, pg.lastModified))]
    /\ UNCHANGED <<files, stores, Collections, mutex, watch, closer, rd>>

HttpSpec == HttpInit /\ [][HttpRequest]_vars

(***************************************************************************)
(* TileCache: a cache of rendered tiles in shards, each shard a mutex, a   *)
(* list of entries in order of use (front = most recent) and a map from    *)
(* key to list element; one atomic counter of the entries of all shards.   *)
(* The cache lives in pg: [maxSize, size, lists, content, locks, procs],   *)
(* together with the history of its use: touched, the keys in the order of *)
(* their last Put or Get hit (oldest first), puts, the keys Put so far,    *)
(* and ret, what the latest call returned (a Put returns nothing).         *)
(***************************************************************************)
NumShards == 2                      \* the shards of the cache (the code has 128)
MaxCapacity == 2                    \* capacities the cache is made with

Shards == 0..(NumShards - 1)
CacheProcs == {1, 2}                \* goroutines calling Get and Put
\* Four tiles: (0,0) and (1,1) share shard 0 whatever the number of shards,
\* (0,1) is in shard 1, and (0,2) in shard 0 of two shards, shard 2 of more.
TileKeys == {k \in [X : 0..1, Y : 0..2, Zoom : {0}] : k.X = k.Y \/ k.X = 0}
TileValues == {"foo", "bar"}
NoValue == "nil"                    \* a nil []byte

\* a ^ b on unsigned integers
RECURSIVE Xor(_, _)
Xor(a, b) ==
    IF a = 0 /\ b = 0 THEN 0
    ELSE (((a % 2) + (b % 2)) % 2) + 2 * Xor(a \div 2, b \div 2)

\* getShard: (X ^ Y ^ (Zoom << 4)) masked to the number of shards.
getShard(key) == Xor(Xor(key.X, key.Y), key.Zoom * 16) % NumShards

IdleProc == [pc |-> "idle", key |-> [X |-> 0, Y |-> 0, Zoom |-> 0], value |-> NoValue,
             size |-> 0]

\* NewTileCache(maxSize)
NewTileCache(maxSize) ==
    [kind |-> "cache", maxSize |-> maxSize, size |-> 0,
     lists |-> [s \in Shards |-> <<>>],
     content |-> [s \in Shards |-> {}],
     locks |-> [s \in Shards |-> FALSE],
     procs |-> [p \in CacheProcs |-> IdleProc],
     ret |-> NoValue, touched |-> <<>>, puts |-> {}]

\* key has been used now: it becomes the last of touched.
Touch(touched, key) == SelectSeq(touched, LAMBDA k : k # key) \o <<key>>

CacheInit ==
    /\ IndexInit
    /\ \E maxSize \in 0..MaxCapacity : pg = NewTileCache(maxSize)

\* The list element of key in a shard's list, as content[shard][key] gives it.
Element(list, key) == CHOOSE i \in 1..Len(list) : list[i].key = key

MoveToFront_Stays(list, i) == list

MoveToFront_Back(list, i) ==
    SubSeq(list, 1, i - 1) \o SubSeq(list, i + 1, Len(list)) \o <<list[i]>>

\* list.MoveToFront(e)
MoveToFront(list, i) ==
    <<list[i]>> \o SubSeq(list, 1, i - 1) \o SubSeq(list, i + 1, Len(list))

\* What the map and the list of key's shard hold for key: the value, or nil.
Value(cache, key) ==
    LET shard == getShard(key)
        list == cache.lists[shard]
    IN  IF key \in cache.content[shard] THEN list[Element(list, key)].value ELSE NoValue

\* Get(key), the whole call under the shard's lock: a hit moves the entry to
\* the front and returns its value, a miss returns nil.
GetCall(p, key) ==
    LET shard == getShard(key)
        list == pg.lists[shard]
    IN  /\ ~pg.locks[shard]
        /\ IF key \in pg.content[shard]
           THEN pg' = [pg EXCEPT !.lists[shard] = MoveToFront(list, Element(list, key)),
                                 !.touched = Touch(@, key),
                                 !.ret = Value(pg, key)]
           ELSE pg' = [pg EXCEPT !.ret = NoValue]

Get(p) ==
    /\ pg.kind = "cache" /\ pg.procs[p].pc = "idle"
    /\ \E key \in TileKeys : GetCall(p, key)
    /\ UNCHANGED <<files, stores, Collections, mutex, watch, closer, rd>>

\* Put(key, value) up to the counter: the lock, the lookup, and on a hit the
\* move to the front with the new value and the return; on a miss
\* list.PushFront and the entry in the map.
PutCall(p, key, value) ==
    LET shard == getShard(key)
        list == pg.lists[shard]
    IN  /\ ~pg.locks[shard]
        /\ IF key \in pg.content[shard]
           THEN LET e == Element(list, key)
                IN  pg' = [pg EXCEPT
                             !.lists[shard] = MoveToFront([list EXCEPT ![e].value = value], e),
                             !.touched = Touch(@, key), !.puts = @ \cup {key},
                             !.ret = NoValue, !.procs[p] = IdleProc]
           ELSE pg' = [pg EXCEPT
                         !.lists[shard] = <<[key |-> key, value |-> value]>> \o list,
                         !.content[shard] = @ \cup {key},
                         !.locks[shard] = TRUE,
                         !.touched = Touch(@, key), !.puts = @ \cup {key},
                         !.ret = NoValue,
                         !.procs[p] = [IdleProc EXCEPT !.pc = "add", !.key = key,
                                                       !.value = value]]

PutBegin(p) ==
    /\ pg.kind = "cache" /\ pg.procs[p].pc = "idle"
    /\ \E key \in TileKeys, value \in TileValues : PutCall(p, key, value)
    /\ UNCHANGED <<files, stores, Collections, mutex, watch, closer, rd>>

PutAdd_AlwaysEvicts(p) ==
    /\ pg.kind = "cache" /\ pg.procs[p].pc = "add"
    /\ pg' = [pg EXCEPT !.size = @ + 1,
                         !.procs[p].size = pg.size + 1,
                         !.procs[p].pc = "evict"]
    /\ UNCHANGED <<files, stores, Collections, mutex, watch, closer, rd>>

\* size := atomic.AddInt32(&tc.size, 1); size > tc.maxSize
PutAdd(p) ==
    /\ pg.kind = "cache" /\ pg.procs[p].pc = "add"
    /\ pg' = [pg EXCEPT !.size = @ + 1,
                         !.procs[p].size = pg.size + 1,
                         !.procs[p].pc = IF pg.size + 1 > pg.maxSize THEN "evict" ELSE "unlock"]
    /\ UNCHANGED <<files, stores, Collections, mutex, watch, closer, rd>>

PutEvict_Skips(p) ==
    /\ pg.kind = "cache" /\ pg.procs[p].pc = "evict"
    /\ pg' = [pg EXCEPT !.procs[p].pc = "unlock"]
    /\ UNCHANGED <<files, stores, Collections, mutex, watch, closer, rd>>

PutEvict_Front(p) ==
    /\ pg.kind = "cache" /\ pg.procs[p].pc = "evict"
    /\ LET shard == getShard(pg.procs[p].key)
           list == pg.lists[shard]
       IN  pg' = [pg EXCEPT !.lists[shard] = Tail(list),
                            !.content[shard] = @ \ {list[1].key},
                            !.procs[p].pc = "sub"]
    /\ UNCHANGED <<files, stores, Collections, mutex, watch, closer, rd>>

\* oldest := list.Back(); unless it is the new entry itself, it goes from
\* the list and from the map.
PutEvict(p) ==
    /\ pg.kind = "cache" /\ pg.procs[p].pc = "evict"
    /\ LET shard == getShard(pg.procs[p].key)
           list == pg.lists[shard]
           oldest == list[Len(list)]
       IN  IF oldest.key # pg.procs[p].key
           THEN pg' = [pg EXCEPT !.lists[shard] = SubSeq(list, 1, Len(list) - 1),
                                 !.content[shard] = @ \ {oldest.key},
                                 !.procs[p].pc = "sub"]
           ELSE pg' = [pg EXCEPT !.procs[p].pc = "unlock"]
    /\ UNCHANGED <<files, stores, Collections, mutex, watch, closer, rd>>

PutSub_NoDecrement(p) ==
    /\ pg.kind = "cache" /\ pg.procs[p].pc = "sub"
    /\ pg' = [pg EXCEPT !.procs[p].pc = "unlock"]
    /\ UNCHANGED <<files, stores, Collections, mutex, watch, closer, rd>>

\* atomic.AddInt32(&tc.size, -1)
PutSub(p) ==
    /\ pg.kind = "cache" /\ pg.procs[p].pc = "sub"
    /\ pg' = [pg EXCEPT !.size = @ - 1, !.procs[p].pc = "unlock"]
    /\ UNCHANGED <<files, stores, Collections, mutex, watch, closer, rd>>

\* the deferred tc.locks[shard].Unlock()
PutUnlock(p) ==
    /\ pg.kind = "cache" /\ pg.procs[p].pc = "unlock"
    /\ pg' = [pg EXCEPT !.locks[getShard(pg.procs[p].key)] = FALSE,
                         !.procs[p] = IdleProc]
    /\ UNCHANGED <<files, stores, Collections, mutex, watch, closer, rd>>

CacheNext ==
    \E p \in CacheProcs :
        Get(p) \/ PutBegin(p) \/ PutAdd(p) \/ PutEvict(p) \/ PutSub(p) \/ PutUnlock(p)

CacheSpec == CacheInit /\ [][CacheNext]_vars

(***************************************************************************)
(* Loading: readCollection derives the ID under which a feature is stored. *)
(* A JSON value that json.Unmarshal put into an interface{} is <<>> when   *)
(* absent, else the pair of its Go type and its content; a number is kept  *)
(* as its decimal digits.                                                  *)
(***************************************************************************)
Absent == <<>>
String(text) == <<"string", text>>

\* getIDString: a string as it is, an int64 in base 10, "" for anything else.
getIDString(s) ==
    IF s # Absent /\ s[1] = "string" THEN s[2]
    ELSE IF s # Absent /\ s[1] = "int64" THEN s[2]
    ELSE ""

\* The features of a file: "id", properties "id" and ".id", and the geometry.
\* json.Unmarshal gives a number as a float64.
RawFeatures ==
    [ID : {Absent, String("A"), <<"float64", "7">>},
     id : {Absent, String("B")},
     dotid : {Absent, String("A")},
     rect : {{1}}]

\* readCollection: coll.id[i] and coll.byID come from f.ID alone.
readFeatures(raw) ==
    [i \in 1..Len(raw) |-> [id |-> getIDString(raw[i].ID), rect |-> raw[i].rect]]

LoadInit ==
    /\ IndexInit
    /\ \E raw \in SeqsUpTo(RawFeatures, MaxFeatures), id \in {"A", "B", "7"} :
          pg = [kind |-> "load", raw |-> raw, id |-> id, pc |-> "file",
                features |-> <<>>, item |-> Pending, page |-> Pending]

\* readCollection
LoadRead ==
    /\ pg.kind = "load" /\ pg.pc = "file"
    /\ pg' = [pg EXCEPT !.pc = "loaded", !.features = readFeatures(pg.raw)]
    /\ UNCHANGED <<files, stores, Collections, mutex, watch, closer, rd>>

\* GetItem(collection, id) on the loaded collection
LoadGetItem ==
    /\ pg.kind = "load" /\ pg.pc = "loaded" /\ pg.item = Pending
    /\ pg' = [pg EXCEPT !.item = GetItem(CallIndex(pg.features, BaseTime), "a", pg.id)]
    /\ UNCHANGED <<files, stores, Collections, mutex, watch, closer, rd>>

\* GetItems(collection, startID = id, ...) on the loaded collection
LoadGetItems ==
    /\ pg.kind = "load" /\ pg.pc = "loaded" /\ pg.page = Pending
    /\ pg' = [pg EXCEPT !.page = GetItems(PageColl(pg.features), pg.id, 0, DefaultLimit,
                                           FullRect, ZeroTime, ZeroTime)]
    /\ UNCHANGED <<files, stores, Collections, mutex, watch, closer, rd>>

LoadNext == LoadRead \/ LoadGetItem \/ LoadGetItems

LoadSpec == LoadInit /\ [][LoadNext]_vars

(***************************************************************************)
(* Tiles.  An image is its width, its height and the set of its painted    *)
(* pixels, and a PNG is the encoding of one image, so that two PNGs are    *)
(* the same bytes exactly when they encode the same image.  The map is     *)
(* one row of Cells; at zoom 0 one tile shows the whole row, at zoom 1     *)
(* each cell has its own tile.                                             *)
(***************************************************************************)
TileSize == 256                     \* gg.NewContext(256, 256)
Radius == 2                         \* dc.DrawCircle(p.X, p.Y, 2)
Zooms == {0, 1}

\* emptyPNG: the transparent image of 1x1 pixel.
emptyPNG == [width |-> 1, height |-> 1, painted |-> {}]

\* dc.DrawCircle; dc.Fill: the pixels of the canvas within the circle.
DrawCircle(dc, p) == dc \cup {q \in (p - Radius)..(p + Radius) : q >= 0 /\ q < TileSize}

\* A canvas without a painted pixel is written as the 1x1 image.
EncodePNG_CropsBlank(dc) == IF dc = {} THEN emptyPNG ELSE [width |-> TileSize, height |-> TileSize, painted |-> dc]

\* dc.EncodePNG: the canvas as it is, 256x256.
EncodePNG(dc) == [width |-> TileSize, height |-> TileSize, painted |-> dc]

\* type Tile struct { dc *gg.Context }: <<>> is the nil context.
ZeroTile == [dc |-> <<>>]

\* Tile.DrawPoint: the first call makes the context.
DrawPoint(t, p) ==
    LET dc == IF t.dc = <<>> THEN {} ELSE t.dc[1]
    IN  [dc |-> <<DrawCircle(dc, p)>>]

\* Tile.ToPNG
ToPNG(t) == IF t.dc # <<>> THEN EncodePNG(t.dc[1]) ELSE emptyPNG

\* getTileBounds: the cells the tile (zoom, x) shows.
getTileBounds(zoom, x) == IF zoom = 0 THEN Cells ELSE {x + 1}

\* coll.webMercator[i]: the centre of the feature's bounds on the map of
\* zoom 0, where a cell is half of the 256 pixels.
CellSize == TileSize \div Cardinality(Cells)
Center(rect) ==
    LET lo == CHOOSE c \in rect : \A d \in rect : c <= d
        hi == CHOOSE c \in rect : \A d \in rect : d <= c
    IN  ((lo - 1) * CellSize + hi * CellSize) \div 2

RECURSIVE DrawFeatures(_, _, _, _, _)
DrawFeatures(features, i, dc, tileBounds, zoom) ==
    IF i > Len(features) THEN dc
    ELSE IF ~Intersects(tileBounds, features[i].rect)
         THEN DrawFeatures(features, i + 1, dc, tileBounds, zoom)
         ELSE LET scale == 2 ^ zoom
                  tileOrigin == (CHOOSE c \in tileBounds : \A d \in tileBounds : c <= d) - 1
                  p == (Center(features[i].rect) - tileOrigin * CellSize) * scale
              IN  DrawFeatures(features, i + 1, DrawCircle(dc, p), tileBounds, zoom)

\* Index.GetTile
GetTile(index, collection, zoom, x) ==
    IF collection \notin DOMAIN index
    THEN [tile |-> <<>>, metadata |-> NoMetadata, err |-> "NotFound"]
    ELSE LET coll == index[collection]
             tileBounds == getTileBounds(zoom, x)
             empty == \A i \in 1..Len(coll.features) :
                         ~Intersects(tileBounds, coll.features[i].rect)
         IN  IF empty
             THEN [tile |-> <<emptyPNG>>, metadata |-> coll.metadata, err |-> "nil"]
             ELSE [tile |-> <<EncodePNG(DrawFeatures(coll.features, 1, {}, tileBounds, zoom))>>,
                   metadata |-> coll.metadata, err |-> "nil"]

\* The points a test draws: on the canvas, at its edge, and off it.
TilePoints == {7, TileSize - 1, TileSize + 44}
TileFeatures == [id : {"A"}, rect : {EmptyRect, {1}, {2}, Cells}]

TileInit ==
    /\ IndexInit
    /\ \E fs \in SeqsUpTo(TileFeatures, MaxFeatures) :
          pg = [kind |-> "tile", features |-> fs, t |-> ZeroTile, drawn |-> FALSE,
                png |-> <<>>, req |-> <<>>, res |-> Pending]

\* One call of Index.GetTile.
TileRequest ==
    /\ pg.kind = "tile"
    /\ \E c \in {"a", NoSuchCollection}, zoom \in Zooms :
          \E x \in 0..(2 ^ zoom - 1) :
             pg' = [pg EXCEPT !.req = <<c, zoom, x>>,
                              !.res = GetTile(CallIndex(pg.features, BaseTime), c, zoom, x)]
    /\ UNCHANGED <<files, stores, Collections, mutex, watch, closer, rd>>

TileDrawPoint ==
    /\ pg.kind = "tile"
    /\ \E p \in TilePoints :
          pg' = [pg EXCEPT !.t = DrawPoint(pg.t, p), !.drawn = TRUE, !.png = <<>>]
    /\ UNCHANGED <<files, stores, Collections, mutex, watch, closer, rd>>

TileToPNG ==
    /\ pg.kind = "tile"
    /\ pg' = [pg EXCEPT !.png = <<ToPNG(pg.t)>>]
    /\ UNCHANGED <<files, stores, Collections, mutex, watch, closer, rd>>

TileNext == TileRequest \/ TileDrawPoint \/ TileToPNG

TileSpec == TileInit /\ [][TileNext]_vars

(***************************************************************************)
(* Fairness of the scheduling: every goroutine that can take a step does   *)
(* so; the select of watchFiles receives from its ticker again and again   *)
(* whatever else is ready, and sync.RWMutex does not starve a waiting      *)
(* Lock.  The file system and the I/O outcomes are under no obligation.    *)
(***************************************************************************)
WatchStep ==
    \/ WatchLookup \/ WatchStat \/ WatchRead \/ WatchBuild \/ WatchReturned
    \/ ReplaceLock \/ ReplaceClose \/ ReplaceAssign \/ ReplaceUnlock

ReaderStep == \E r \in Readers : ReaderRead(r) \/ ReaderRUnlock(r)

FairSpec ==
    /\ Spec
    /\ SF_vars(WatchTick)
    /\ SF_vars(WatchStep)
    /\ WF_vars(ReaderStep)
    /\ SF_vars(CloseAll \/ CloseUnlock)

(***************************************************************************)
(* Properties of the reload protocol.                                      *)
(***************************************************************************)
\* What is served for a name: the active Collection object and its state.
Served(n) == IF Collections[n] = NoStore THEN Free ELSE stores[Collections[n]]

\* The file of n is newer than what is served for n.
FileIsNewer(n) ==
    /\ Collections[n] # NoStore
    /\ files[n].state = "ok"
    /\ files[n].mtime > Served(n).metadata.LastModified

\* C2: no torn view. Everything a running GetItems, GetItem or GetTile call has
\* observed so far (ID lookup, rectangles, feature bytes, metadata) comes from
\* the one Collection it looked up, which was completely built and was the
\* active one of its name whenever the call looked at it.
C2_NoTornView ==
    \A r \in Readers : \A o \in rd[r].obs :
        /\ o.store = rd[r].coll
        /\ o.built
        /\ o.active
        /\ \A o2 \in rd[r].obs : o2.gen = o.gen

\* A GetItems call has made all its observations on a generation that a
\* reload installed.
C2_Witness ==
    \E r \in Readers :
        /\ rd[r].pc = "unlock" /\ rd[r].op = "GetItems"
        /\ Cardinality(rd[r].obs) = 3
        /\ stores[rd[r].coll].metadata.LastModified > BaseTime

\* C3: a failed background reload never changes what is served. No step that
\* reloadIfChanged takes for a readCollection that fails with an error other
\* than NotModified changes the map, the active Collection objects or
\* their backing files.
C3_FailedReloadKeepsServing ==
    [][ (watch' # watch /\ (watch.err \in LoadErrors \/ watch'.err \in LoadErrors))
            => /\ Collections' = Collections
               /\ \A n \in Names : Served(n)' = Served(n) ]_vars

\* readCollection has failed on a malformed newer file while a Collection is served.
C3_Witness ==
    /\ watch.pc = "returned" /\ watch.err = "read"
    /\ Collections[watch.md.Name] # NoStore
    /\ Served(watch.md.Name).dataFile = "open"

\* C4: GetItem and GetItems never read from a backing file that Collection.Close
\* has closed and removed.
C4_NoReadAfterClose ==
    \A r \in Readers : \A o \in rd[r].obs :
        o.what = "bytes" => o.gen # <<"EBADF">>

\* GetItem has read its feature while a reload of the same collection waits
\* for the write lock in replaceCollection.
C4_Witness ==
    \E r \in Readers :
        /\ rd[r].pc = "unlock" /\ rd[r].op = "GetItem"
        /\ watch.pc = "replace" /\ watch.md.Name = rd[r].name

\* C6: a successful reload swaps exactly one collection. When replaceCollection
\* is about to unlock, the name's active Collection is the new, built, open
\* one with LastModified = the stat time, the superseded Collection is closed,
\* and every other name has the active Collection it had before.
C6_SwapExactlyOne ==
    /\ [](watch.pc = "replUnlock" =>
            /\ Collections[watch.md.Name] = watch.coll
            /\ stores[watch.coll].metadata =
                   CollectionMetadata(watch.md.Name, watch.statTime)
            /\ stores[watch.coll].built /\ stores[watch.coll].dataFile = "open"
            /\ watch.old # NoStore => stores[watch.old].dataFile = "closed")
    /\ [][ (watch.pc \in {"replace", "replClose", "replAssign", "replUnlock"}
              /\ watch' # watch)
            => \A n \in Names \ {watch.md.Name} :
                  Collections'[n] = Collections[n] /\ Served(n)' = Served(n) ]_vars

\* A swap has replaced a served Collection by a newer one.
C6_Witness ==
    /\ watch.pc = "replUnlock"
    /\ watch.old # NoStore
    /\ watch.statTime > watch.md.LastModified

\* C7: reloading an unchanged file is a no-op. When the file's modification
\* time is not later than the LastModified the reload was started with,
\* readCollection answers NotModified without a new Collection, and no step
\* of that reload changes the map or any Collection or backing file.
C7_UnchangedIsNoOp ==
    /\ [](  (watch.pc \notin {"select", "lookup", "stat", "exited"}
              /\ watch.statTime # ZeroTime
              /\ watch.statTime <= watch.md.LastModified)
            => watch.err = "NotModified" /\ watch.coll = NoStore )
    /\ [][ (watch' # watch /\ (watch.err = "NotModified" \/ watch'.err = "NotModified"))
            => Collections' = Collections /\ stores' = stores ]_vars

\* The poll has found the file of a served collection unchanged.
C7_Witness ==
    /\ watch.pc = "returned" /\ watch.err = "NotModified"
    /\ Collections[watch.md.Name] # NoStore
    /\ watch.statTime = watch.md.LastModified
    /\ watch.path = ""

\* readCollection has returned: T is its threshold, statTime the stat.ModTime().
ReadCollectionReturned == watch.pc = "returned"
NotModifiedExactly ==
    /\ watch.err = "NotModified"
          <=> (watch.err # "stat" /\ watch.statTime <= watch.md.LastModified)
    /\ watch.err = "NotModified" => watch.coll = NoStore

\* C8 as stated: NotModified exactly when the modification time is not after T,
\* then without a Collection; and a store and no error whenever the time is
\* after T and the file is a well-formed feature collection.
C8_AsStated ==
    ReadCollectionReturned =>
        /\ NotModifiedExactly
        /\ (watch.statTime > watch.md.LastModified /\ watch.err \notin {"stat", "read"})
              => (watch.err = "nil" /\ watch.coll # NoStore)

\* C8 amended: ... a store and no error whenever the time is after T, the file
\* is a well-formed feature collection and the backing file could be created
\* and written; the store is then built, open and carries the stat time.
C8_ReadCollection ==
    ReadCollectionReturned =>
        /\ NotModifiedExactly
        /\ (watch.statTime > watch.md.LastModified
              /\ watch.err \notin {"stat", "read", "tempfile", "write"})
              => /\ watch.err = "nil" /\ watch.coll # NoStore
                 /\ stores[watch.coll].built /\ stores[watch.coll].dataFile = "open"
                 /\ stores[watch.coll].metadata.LastModified = watch.statTime

\* readCollection has returned a Collection for a file newer than T.
C8_Witness ==
    /\ ReadCollectionReturned /\ watch.err = "nil"
    /\ watch.statTime > watch.md.LastModified

\* C9: Closed is terminal. Once Index.Close has returned and the reload task
\* is at rest, the map is empty and no Collection has an open backing file.
C9_ClosedIsTerminal ==
    (closer = "done" /\ watch.pc \in {"select", "exited"})
        => /\ \A n \in Names : Collections[n] = NoStore
           /\ \A i \in Slots : stores[i].dataFile # "open"

\* C5: changes are eventually picked up. It never happens that from some
\* time on the file of a served collection stays well-formed and newer than
\* the active Collection while no load fails on its backing file.
C5_EventuallyPickedUp ==
    \A n \in Names :
        ~<>[](FileIsNewer(n) /\ watch.err \notin {"tempfile", "write"})

(***************************************************************************)
(* Properties of GetItems.                                                 *)
(***************************************************************************)
\* The storage indices of the features whose rectangle intersects bbox.
RECURSIVE MatchingFrom(_, _, _)
MatchingFrom(features, bbox, i) ==
    IF i > Len(features) THEN <<>>
    ELSE (IF features[i].rect \cap bbox # {} THEN <<i - 1>> ELSE <<>>)
         \o MatchingFrom(features, bbox, i + 1)

\* C1: pagination is complete. When the client has followed the next links
\* to the end, the features it received are exactly the features matching the
\* bbox, in storage order, each once.
C1_PaginationComplete ==
    (pg.kind = "page" /\ pg.done) => pg.out = MatchingFrom(pg.features, pg.bbox, 1)

\* C10: conditional requests on a collection last modified at L.
\* ifModifiedSince = L: NotModified; L minus one second: success;
\* ifUnmodifiedSince = L minus one second: Modified; L: success.
C10_ConditionalRequests ==
    (pg.kind = "cond" /\ pg.err # "pending") =>
        LET L == pg.lastModified IN
        /\ (pg.ifModifiedSince = L /\ pg.ifUnmodifiedSince = ZeroTime) => pg.err = "NotModified"
        /\ (pg.ifModifiedSince = L - Second /\ pg.ifUnmodifiedSince = ZeroTime) => pg.err = "nil"
        /\ (pg.ifUnmodifiedSince = L - Second /\ pg.ifModifiedSince = ZeroTime) => pg.err = "Modified"
        /\ (pg.ifUnmodifiedSince = L /\ pg.ifModifiedSince = ZeroTime) => pg.err = "nil"

\* A request with ifModifiedSince = L was answered, L not on a full second.
C10_Witness ==
    /\ pg.kind = "cond" /\ pg.err = "NotModified"
    /\ pg.ifModifiedSince = pg.lastModified /\ pg.ifUnmodifiedSince = ZeroTime
    /\ pg.lastModified % Second # 0

(***************************************************************************)
(* Properties of Index.GetItems.                                           *)
(***************************************************************************)
Answered == pg.kind = "call" /\ pg.res # Pending

\* C11: the preconditions are evaluated in a fixed order. An unknown
\* collection gives NotFound whatever the timestamps; otherwise a non-zero
\* ifUnmodifiedSince the collection changed after gives Modified, also when
\* ifModifiedSince alone would give NotModified; otherwise a non-zero
\* ifModifiedSince the collection did not change after gives NotModified; a
\* zero timestamp causes neither.
C11_PreconditionOrder ==
    Answered =>
        LET lm == Round(pg.lastModified)
            changedAfterIUS == pg.ifUnmodifiedSince # ZeroTime /\ lm > Round(pg.ifUnmodifiedSince)
            unchangedSinceIMS == pg.ifModifiedSince # ZeroTime /\ lm <= Round(pg.ifModifiedSince)
        IN  /\ pg.collection = NoSuchCollection => pg.res.err = "NotFound"
            /\ pg.collection = "a" =>
                  /\ changedAfterIUS => pg.res.err = "Modified"
                  /\ (~changedAfterIUS /\ unchangedSinceIMS) => pg.res.err = "NotModified"
                  /\ (~changedAfterIUS /\ ~unchangedSinceIMS) => pg.res.err = "nil"
                  /\ pg.res.err = "Modified" => pg.ifUnmodifiedSince # ZeroTime
                  /\ pg.res.err = "NotModified" => pg.ifModifiedSince # ZeroTime

\* Both preconditions fail at once and the answer is Modified.
C11_Witness ==
    /\ Answered /\ pg.collection = "a" /\ pg.res.err = "Modified"
    /\ pg.ifModifiedSince # ZeroTime
    /\ Round(pg.lastModified) <= Round(pg.ifModifiedSince)
    /\ Round(pg.lastModified) > Round(pg.ifUnmodifiedSince)

\* C17: a typed failure is never a partial success. When GetItems returns
\* NotFound, Modified or NotModified it has made no call of out.Write; a
\* collection name that is not in the index gives NotFound.
C17_TypedFailureWritesNothing ==
    Answered =>
        /\ pg.res.err \in {"NotFound", "Modified", "NotModified"} => pg.res.calls = <<>>
        /\ pg.collection = NoSuchCollection => pg.res.err = "NotFound"

\* NotModified was returned for a collection that has a feature to write.
C17_Witness ==
    /\ Answered /\ pg.collection = "a" /\ pg.res.err = "NotModified"
    /\ pg.features # <<>> /\ pg.res.calls = <<>>

\* C12: for every modification time M of the collection's file, also one
\* with a sub-second part, If-Modified-Since: M (as an HTTP date) gets 304 and
\* If-Unmodified-Since: M gets 200; one hour earlier gets 200 resp. 412, one
\* hour later 304 resp. 200, and a header that is no date is ignored.
C12_HttpDates ==
    (pg.kind = "http" /\ pg.status # 0) =>
        LET ims == pg.ifModifiedSince
            ius == pg.ifUnmodifiedSince
            unset == {"none", "junk"}
        IN  /\ (ims = "present" /\ ius \in unset) => pg.status = StatusNotModified
            /\ (ius = "present" /\ ims \in unset) => pg.status = StatusOK
            /\ (ims = "past" /\ ius \in unset) => pg.status = StatusOK
            /\ (ius = "past" /\ ims \in unset) => pg.status = StatusPreconditionFailed
            /\ (ims = "future" /\ ius \in unset) => pg.status = StatusNotModified
            /\ (ius = "future" /\ ims \in unset) => pg.status = StatusOK
            /\ (ims \in unset /\ ius \in unset) => pg.status = StatusOK

\* The storage indices of the features written, in the order of the writes.
Emitted(res) ==
    LET fs == SelectSeq(res.calls, LAMBDA c : c[1] = "feature")
    IN  [k \in 1..Len(fs) |-> fs[k][2]]

\* The same call with other paging arguments, to a sink that takes every write.
SameCallWith(startID, startIndex, limit) ==
    IndexGetItems(CallIndex(pg.features, pg.lastModified), pg.collection,
                  startID, startIndex, limit, pg.bbox,
                  pg.ifModifiedSince, pg.ifUnmodifiedSince, [failAt |-> 0])

AllIntersect(features, bbox) ==
    \A i \in 1..Len(features) : features[i].rect \cap bbox # {}

IsAnID(features, id) == \E i \in 1..Len(features) : features[i].id = id

\* C13: a known startID overrides startIndex. With a bbox every feature
\* intersects, the first feature written has the ID startID, whatever
\* startIndex is, and the self link gives that feature's storage index as start.
C13_KnownStartID ==
    (Answered /\ pg.startID # "" /\ IsAnID(pg.features, pg.startID)
              /\ AllIntersect(pg.features, pg.bbox)) =>
        /\ pg.res.err = "nil"
        /\ Emitted(pg.res) # <<>>
        /\ pg.features[Emitted(pg.res)[1] + 1].id = pg.startID
        /\ ParseItemsURL(pg.res.self).start = Emitted(pg.res)[1]
        /\ ParseItemsURL(pg.res.self).startID = pg.startID

\* A known startID was given together with a startIndex that points elsewhere.
C13_Witness ==
    /\ Answered /\ pg.startID = "A" /\ AllIntersect(pg.features, pg.bbox)
    /\ Len(pg.features) = 3 /\ pg.features[2].id = "A" /\ pg.features[1].id # "A"
    /\ pg.features[3].id # "A"
    /\ pg.startIndex = 2 /\ Emitted(pg.res)[1] = 1

\* C14: a stale startID is tolerated. With a non-empty startID that is not
\* an ID of the collection GetItems returns no error and writes the same
\* features as the same call with an empty startID and the same startIndex.
C14_StaleStartID ==
    (Answered /\ pg.startID # "" /\ ~IsAnID(pg.features, pg.startID)) =>
        /\ pg.res.err = "nil"
        /\ Emitted(pg.res) = Emitted(SameCallWith("", pg.startIndex, pg.limit))

\* A stale startID came with a startIndex that skips a feature, and a
\* feature was written.
C14_Witness ==
    /\ Answered /\ pg.startID = "Z" /\ pg.startIndex = 1
    /\ Len(pg.features) = 3 /\ Emitted(pg.res) = <<1>>

\* C16: the paging inputs are clamped. At most min(max(limit, 1), MaxLimit)
\* features are written; a limit below 1 gives the output of limit 1, a limit
\* above MaxLimit that of MaxLimit, a negative startIndex that of startIndex 0.
C16_PagingClamped ==
    Answered =>
        LET atLeast1 == IF pg.limit < 1 THEN 1 ELSE pg.limit
            bound == IF atLeast1 > MaxLimit THEN MaxLimit ELSE atLeast1
        IN  /\ Len(Emitted(pg.res)) <= bound
            /\ pg.limit < 1 => pg.res = SameCallWith(pg.startID, pg.startIndex, 1)
            /\ pg.limit > MaxLimit => pg.res = SameCallWith(pg.startID, pg.startIndex, MaxLimit)
            /\ pg.startIndex < 0 => pg.res = SameCallWith(pg.startID, 0, pg.limit)

\* A limit of 0 was given for a collection of three matching features: one
\* feature and a next link came back.
C16_Witness ==
    /\ Answered /\ pg.limit = 0 /\ pg.startIndex < 0
    /\ Len(pg.features) = 3 /\ AllIntersect(pg.features, pg.bbox)
    /\ Emitted(pg.res) = <<0>> /\ pg.res.next # NoLink

\* C18: a failure of the sink is surfaced. If a call of out.Write fails,
\* whichever it is (header, separator, feature, closing bracket, footer),
\* GetItems returns that error, not success, and calls out.Write no more.
C18_SinkFailureSurfaced ==
    Answered =>
        LET full == SameCallWith(pg.startID, pg.startIndex, pg.limit).calls
        IN  IF pg.failAt \in 1..Len(full)
            THEN /\ pg.res.err = "EIO"
                 /\ pg.res.calls = SubSeq(full, 1, pg.failAt)
            ELSE /\ pg.res.err = "nil"
                 /\ pg.res.calls = full

\* The write of a separator failed after one feature had been written.
C18_Witness ==
    /\ Answered /\ pg.failAt = 3 /\ pg.res.err = "EIO"
    /\ Len(pg.res.calls) = 3 /\ pg.res.calls[3] = <<",">>

\* Three features with the IDs A, B, C in storage order, all matching the
\* bbox, are paged through with limit 2.
ThreeFeaturesLimitTwo ==
    /\ pg.kind = "page" /\ pg.limit = 2
    /\ Len(pg.features) = 3
    /\ pg.features[1].id = "A" /\ pg.features[2].id = "B" /\ pg.features[3].id = "C"
    /\ \A i \in 1..3 : pg.features[i].rect \cap pg.bbox # {}

\* C15 as stated: the first page is [A, B] with a next link whose startID is
\* B; following it gives [C] and no next link.
C15_AsStated ==
    ThreeFeaturesLimitTwo =>
        /\ pg.pages = 1 => (pg.out = <<0, 1>> /\ ~pg.done /\ pg.req.startID = "B")
        /\ pg.pages = 2 => (pg.out = <<0, 1, 2>> /\ pg.done)

\* C15, amended: the first page is [A, B] with a next link whose startID is
\* C, the first feature of the next page, and whose start is 2; following it
\* gives [C] and no next link.
C15_NextLinkNamesNextFeature ==
    ThreeFeaturesLimitTwo =>
        /\ pg.pages = 1 => /\ pg.out = <<0, 1>> /\ ~pg.done
                           /\ pg.req.startID = "C" /\ pg.req.start = 2
                           /\ pg.req.limit = 2 /\ pg.req.bbox = pg.bbox
        /\ pg.pages = 2 => (pg.out = <<0, 1, 2>> /\ pg.done)
        /\ pg.pages <= 2

\* The second page of the scenario has been served.
C15_Witness == ThreeFeaturesLimitTwo /\ pg.pages = 2 /\ pg.done /\ pg.out = <<0, 1, 2>>

(***************************************************************************)
(* Properties of Index.GetItem.                                            *)
(***************************************************************************)
\* C19: GetItem returns the feature that has the requested ID when the
\* collection exists and has a feature with that ID, and one and the same
\* outcome, no feature and no error, for an unknown collection and for an
\* unknown ID in a known collection.
C19_GetItem ==
    (pg.kind = "item" /\ pg.res # Pending) =>
        IF pg.collection = "a" /\ pg.id # "" /\ IsAnID(pg.features, pg.id)
        THEN /\ pg.res.err = "nil"
             /\ pg.res.feature # <<>>
             /\ pg.res.feature[1].id = pg.id
             /\ \E i \in 1..Len(pg.features) : pg.features[i] = pg.res.feature[1]
        ELSE pg.res = [feature |-> <<>>, err |-> "nil"]

\* The second of three features of different sizes was asked for and returned.
C19_Witness ==
    /\ pg.kind = "item" /\ pg.res # Pending /\ pg.collection = "a" /\ pg.id = "B"
    /\ Len(pg.features) = 3 /\ pg.features[1].id = "" /\ pg.features[2].id = "B"
    /\ pg.features[3].id = "A"
    /\ pg.res.feature = <<pg.features[2]>>

(***************************************************************************)
(* Properties of Index.GetCollections.                                     *)
(***************************************************************************)
NameBefore(x, y) == x = "a" /\ y = "b"

\* md lists the index: one metadata value for every name in the map, that of
\* the store the map holds for the name, in ascending order of name.
Lists(md, colls, sts) ==
    /\ Len(md) = Cardinality({n \in Names : colls[n] # NoStore})
    /\ \A n \in Names : colls[n] # NoStore =>
           \E i \in 1..Len(md) : md[i].Name = n /\ md[i] = sts[colls[n]].metadata
    /\ \A i, j \in 1..Len(md) : i < j => NameBefore(md[i].Name, md[j].Name)

\* What the ticker loop took from GetCollections: the metadata it works on
\* and those still to come.
Taken(w) == IF w.pc = "stat" THEN <<w.md>> \o w.queue ELSE <<>>

\* C20: GetCollections returns exactly one metadata value per collection
\* name in the index at the moment of the call, in ascending order of name,
\* each the metadata of the store active for that name at that moment.
C20_GetCollections ==
    [][WatchTick => Lists(Taken(watch'), Collections, stores)]_vars

\* The listing was taken after collection a had been replaced by a reload.
C20_Witness ==
    /\ watch.pc = "stat" /\ Len(watch.queue) = 1
    /\ watch.md.Name = "a" /\ watch.md.LastModified > BaseTime
    /\ watch.queue[1].Name = "b"

(***************************************************************************)
(* Properties of TileCache.                                                *)
(***************************************************************************)
IsCache == pg.kind = "cache"
Stored(cache) == UNION {cache.content[s] : s \in Shards}
Entries(cache) == Cardinality({<<s, i>> \in Shards \X (1..Cardinality(TileKeys) + 1) :
                                 i <= Len(cache.lists[s])})
PutsInProgress(cache) == Cardinality({p \in CacheProcs : cache.procs[p].pc # "idle"})

\* C21 as stated: in every reachable state the number of entries, and the
\* size counter, exceed the capacity by at most (number of shards - 1).
C21_AsStated ==
    IsCache => /\ Entries(pg) <= pg.maxSize + NumShards - 1
               /\ pg.size <= pg.maxSize + NumShards - 1

\* C21, amended: for a capacity of at least 1, the number of entries and the
\* size counter exceed the capacity by at most (number of shards - 1) whenever
\* no Put is in progress, and by at most that plus the number of Puts in
\* progress otherwise.
C21_CapacityBound ==
    (IsCache /\ pg.maxSize >= 1) =>
        /\ Entries(pg) <= pg.maxSize + NumShards - 1 + PutsInProgress(pg)
        /\ pg.size <= pg.maxSize + NumShards - 1 + PutsInProgress(pg)

\* No Put is in progress and the cache is over its capacity by the number
\* of shards less one.
C21_Witness ==
    /\ IsCache /\ pg.maxSize >= 1 /\ PutsInProgress(pg) = 0
    /\ Entries(pg) = pg.maxSize + NumShards - 1
    /\ pg.size = Entries(pg)

\* C23: read your write. Right after Put(k, v) has returned, Get(k) returns
\* v: when k was absent before the Put, also when the Put evicted an entry,
\* and when k was present with another value.
C23_ReadYourWrite ==
    [][IsCache =>
         \A p \in CacheProcs :
            /\ PutUnlock(p) => Value(pg', pg.procs[p].key) = pg.procs[p].value
            /\ \A k \in TileKeys, v \in TileValues :
                  (/\ pg.procs[p].pc = "idle" /\ pg'.procs[p].pc = "idle"
                   /\ pg'.lists # pg.lists /\ k \in Stored(pg)
                   /\ PutCall(p, k, v))
                      => Value(pg', k) = v]_vars

\* A Put of a new key that evicted an entry is about to return, and no
\* other call is in progress.
C23_Witness ==
    /\ IsCache
    /\ \E p \in CacheProcs :
          /\ pg.procs[p].pc = "unlock"
          /\ pg.procs[p].size > pg.maxSize /\ pg.size = pg.procs[p].size - 1
          /\ PutsInProgress(pg) = 1
          /\ Value(pg, pg.procs[p].key) = pg.procs[p].value

\* C24: the size counter. Whenever no Put is in progress the counter equals
\* the number of distinct keys stored in all shards and is not negative; a
\* Put of a key already present and any Get leave it unchanged, and a Get of
\* a missing key returns nothing.
C24_SizeBookkeeping ==
    /\ [](IsCache /\ PutsInProgress(pg) = 0 =>
             /\ pg.size = Cardinality(Stored(pg))
             /\ pg.size = Entries(pg)
             /\ pg.size >= 0)
    /\ [][IsCache =>
             \A p \in CacheProcs :
                (pg.procs[p].pc = "idle" /\ pg'.procs[p].pc = "idle") =>
                    /\ Get(p) => pg'.size = pg.size
                    /\ PutBegin(p) => pg'.size = pg.size
                    /\ \A k \in TileKeys \ Stored(pg) :
                          GetCall(p, k) => pg'.ret = NoValue]_vars

\* No Put is in progress, the cache holds a key in every shard, one more
\* than its capacity, and a Get has just returned a stored value.
C24_Witness ==
    /\ IsCache /\ PutsInProgress(pg) = 0 /\ pg.maxSize = 1
    /\ pg.size = 2 /\ Cardinality(Stored(pg)) = 2
    /\ pg.ret = "bar"

\* The key of the set keys that was touched longest ago.
LeastRecentlyTouched(touched, keys) ==
    LET kept == SelectSeq(touched, LAMBDA k : k \in keys) IN kept[1]

\* C22 as stated: once more distinct keys than the capacity have been Put
\* (with any Gets in between) and no Put is in progress, the key touched
\* least recently by a Put or Get is no longer in the cache.
C22_AsStated ==
    (IsCache /\ PutsInProgress(pg) = 0 /\ Cardinality(pg.puts) > pg.maxSize) =>
        LeastRecentlyTouched(pg.touched, pg.puts) \notin Stored(pg)

\* C22, amended: eviction is by shard. A Put of a new key that brings the
\* counter above the capacity removes one key exactly when the shard of the
\* new key holds another key, and then it is the key touched least recently
\* among the other keys of that shard; the keys of the other shards stay.
C22_EvictionWithinShard ==
    [][IsCache =>
         \A p \in CacheProcs :
            PutEvict(p) =>
                LET key == pg.procs[p].key
                    shard == getShard(key)
                    others == pg.content[shard] \ {key}
                    gone == Stored(pg) \ Stored(pg')
                IN  /\ pg.procs[p].size > pg.maxSize
                    /\ others = {} => gone = {}
                    /\ others # {} => gone = {LeastRecentlyTouched(pg.touched, others)}
                    /\ \A s \in Shards \ {shard} : pg'.lists[s] = pg.lists[s]]_vars

\* A Put is about to evict from a shard that holds two older keys, the
\* older of which was used again after the other.
C22_Witness ==
    /\ IsCache
    /\ \E p \in CacheProcs :
          /\ pg.procs[p].pc = "evict"
          /\ LET list == pg.lists[getShard(pg.procs[p].key)]
             IN  /\ Len(list) = 3
                 /\ \E i, j \in 1..Len(pg.touched) :
                       /\ i < j /\ pg.touched[i] = list[3].key /\ pg.touched[j] = list[2].key
                 /\ \E s \in Shards : s # getShard(pg.procs[p].key) /\ pg.lists[s] # <<>>

\* C25: Index.GetTile answers an unknown collection with NotFound, and a
\* known one with the pre-encoded empty tile exactly when no feature's
\* rectangle intersects the bounds of the tile; Tile.ToPNG gives those same
\* empty bytes exactly when DrawPoint was never called on the tile.
C25_EmptyTile ==
    pg.kind = "tile" =>
        /\ pg.req # <<>> =>
              LET c == pg.req[1]
                  tileBounds == getTileBounds(pg.req[2], pg.req[3])
                  hit == \E i \in 1..Len(pg.features) :
                            Intersects(tileBounds, pg.features[i].rect)
              IN  /\ c = NoSuchCollection => pg.res.err = "NotFound"
                  /\ c = "a" => /\ pg.res.err = "nil"
                                /\ (pg.res.tile = <<emptyPNG>>) <=> ~hit
        /\ pg.png # <<>> => ((pg.png = <<emptyPNG>>) <=> ~pg.drawn)

\* A tile was asked for that a feature lies in, and a Tile on which only a
\* point off the canvas was drawn has been encoded.
C25_Witness ==
    /\ pg.kind = "tile" /\ pg.req # <<>> /\ pg.req[1] = "a"
    /\ pg.res.err = "nil" /\ pg.res.tile # <<emptyPNG>>
    /\ \E i \in 1..Len(pg.features) : pg.features[i].rect = EmptyRect
    /\ pg.drawn /\ pg.png # <<>> /\ pg.png[1].painted = {}

\* The first non-empty text of a sequence, "" if there is none.
FirstNonEmpty(texts) ==
    IF \E k \in 1..Len(texts) : texts[k] # ""
    THEN texts[CHOOSE k \in 1..Len(texts) :
                   texts[k] # "" /\ \A j \in 1..(k - 1) : texts[j] = ""]
    ELSE ""

\* The ID the claim gives the feature f of a file.
DerivedID(f) == FirstNonEmpty(<<getIDString(f.ID), getIDString(f.id), getIDString(f.dotid)>>)

\* C26: a loaded feature is stored under the first non-empty of its own
\* identifier, its property id and its property .id; so a feature without
\* an identifier of its own whose property id is X is what GetItem(X)
\* returns, and the first feature of the page that starts at startID X.
C26_IDDerivation ==
    (pg.kind = "load" /\ pg.pc = "loaded") =>
        /\ \A i \in 1..Len(pg.raw) : pg.features[i].id = DerivedID(pg.raw[i])
        /\ \A i \in 1..Len(pg.raw) :
              (/\ pg.raw[i].ID = Absent /\ pg.raw[i].id = String(pg.id)
               /\ \A j \in 1..Len(pg.raw) : DerivedID(pg.raw[j]) = pg.id => j = i) =>
                  /\ pg.item # Pending => pg.item.feature # NoFeature
                  /\ pg.page # Pending =>
                        pg.page.emitted # <<>> /\ pg.page.emitted[1] = i - 1

\* The storage indices of the features whose rectangle intersects bbox, in
\* storage order.
Matching(features, bbox) ==
    LET idx == [i \in 1..Len(features) |-> i - 1]
    IN  SelectSeq(idx, LAMBDA i : Intersects(bbox, features[i + 1].rect))

NextCursor(res) ==
    LET M == Matching(pg.features, pg.bbox)
        emitted == Emitted(res)
        atLeast1 == IF pg.limit < 1 THEN 1 ELSE pg.limit
        l == IF atLeast1 > MaxLimit THEN MaxLimit ELSE atLeast1
        further == {k \in 1..Len(M) : emitted # <<>> /\ M[k] > emitted[Len(emitted)]}
        n == M[CHOOSE k \in further : \A j \in further : k <= j]
        next == ParseItemsURL(res.next)
    IN  /\ res.next # NoLink <=> (Len(emitted) = l /\ further # {})
        /\ res.next # NoLink =>
              /\ next.startID = pg.features[n + 1].id
              /\ next.start = n
              /\ next.limit = l

\* C28: a successful GetItems gives a next link exactly when it wrote the
\* clamped limit of features and a further matching feature follows the last
\* written one; the link has the ID (empty if none) and the storage index of
\* the first such feature, the clamped limit, and the bbox of the request.
C28_NextCursor ==
    (Answered /\ pg.res.err = "nil") =>
        /\ NextCursor(pg.res)
        /\ pg.res.next # NoLink => ParseItemsURL(pg.res.next).bbox = pg.bbox

\* C29: cursors survive reloads. When the store is replaced between two
\* pages and exactly one feature of the new store has the ID of the cursor,
\* and it intersects the bbox, the next page begins with that feature,
\* wherever it is stored now; when no feature has the ID, the page is the
\* one the cursor's startIndex alone gives, and there is no error.
C29_CursorSurvivesReload ==
    (pg.kind = "reload" /\ pg.second # Pending) =>
        LET id == pg.req.startID
            named == {i \in 1..Len(pg.features) : pg.features[i].id = id}
        IN  /\ pg.second.err = "nil"
            /\ (id # "" /\ Cardinality(named) = 1) =>
                  \A i \in named :
                      Intersects(pg.req.bbox, pg.features[i].rect) =>
                          pg.second.emitted # <<>> /\ pg.second.emitted[1] = i - 1
            /\ (id # "" /\ named = {}) =>
                  pg.second.emitted =
                      GetItems(PageColl(pg.features), "", pg.req.start, pg.req.limit,
                               pg.req.bbox, ZeroTime, ZeroTime).emitted

(***************************************************************************)
(* Properties of the locking of the reload.                                *)
(***************************************************************************)
\* The reload goroutine is in readCollection (os.Stat, reading and parsing,
\* writing the backing file) or has just returned from it.
Loading == watch.pc \in {"stat", "read", "build", "returned"}
\* The goroutines that are between a Lock or RLock and its Unlock.
ReloadHoldsLock == watch.pc \in {"replClose", "replAssign", "replUnlock"}
CloseHoldsLock == closer \in {"locked", "unlock"}
ReadLocksHeld == Cardinality({r \in Readers : rd[r].pc \in {"read", "unlock"}})

\* C30: loading never blocks queries. The write lock is held exactly while
\* the reload is in replaceCollection or Close is at work, and the read
\* lock by the requests under way: the reload holds neither lock while it
\* stats, reads, parses and writes, so that a request can take the read
\* lock then unless Close holds the lock, and once begun runs to its end
\* whatever the reload does; a step taken under the reload's write lock
\* leaves the files alone and builds no Collection.
C30_LoadingHoldsNoLock ==
    /\ [](/\ mutex.writer <=> (ReloadHoldsLock \/ CloseHoldsLock)
          /\ ~(ReloadHoldsLock /\ CloseHoldsLock)
          /\ mutex.readers = ReadLocksHeld
          /\ Loading => ~ReloadHoldsLock
          /\ (Loading /\ ~CloseHoldsLock) =>
                \A r \in Readers :
                    /\ rd[r].pc = "idle" => ENABLED ReaderBegin(r)
                    /\ rd[r].pc = "read" => ENABLED ReaderRead(r)
                    /\ rd[r].pc = "unlock" => ENABLED ReaderRUnlock(r))
    /\ [][ (ReloadHoldsLock /\ watch' # watch) =>
              /\ files' = files
              /\ \A i \in Slots : stores'[i] # Free /\ stores[i] # Free =>
                    stores'[i].built = stores[i].built /\ stores'[i].doc = stores[i].doc ]_vars

\* A request holds the read lock while the reload writes the backing file
\* of the Collection it has parsed from a changed file.
C30_Witness ==
    /\ watch.pc = "build" /\ watch.statTime > watch.md.LastModified
    /\ ~mutex.writer /\ mutex.readers = 1
    /\ \E r \in Readers : rd[r].pc = "unlock" /\ rd[r].name = watch.md.Name

(***************************************************************************)
(* Properties of the eviction of TileCache.                                *)
(***************************************************************************)
\* The keys of a shard's list, most recently used first.
KeysOf(list) == [i \in 1..Len(list) |-> list[i].key]

\* C31: eviction is local to the shard. The Put of a new key whose
\* increment takes the counter above the capacity removes exactly one
\* entry, the last of the list of the new key's shard, unless the new entry
\* is alone in that shard, and then it removes nothing; the new entry
\* stays, at the front, and the lists of the other shards are as they were.
\* A Put whose increment leaves the counter within the capacity goes on to
\* its unlock and removes nothing.
C31_ShardLocalEviction ==
    [][IsCache =>
         \A p \in CacheProcs :
            /\ (pg.procs[p].pc = "add" /\ PutAdd(p)) =>
                  /\ pg'.lists = pg.lists
                  /\ pg'.procs[p].pc = "evict" <=> pg.size + 1 > pg.maxSize
                  /\ pg'.procs[p].pc = "unlock" <=> pg.size + 1 <= pg.maxSize
            /\ (pg.procs[p].pc = "evict" /\ PutEvict(p)) =>
                  LET key == pg.procs[p].key
                      shard == getShard(key)
                      list == pg.lists[shard]
                  IN  /\ list[1].key = key
                      /\ \A s \in Shards \ {shard} :
                            pg'.lists[s] = pg.lists[s] /\ pg'.content[s] = pg.content[s]
                      /\ key \in Stored(pg')
                      /\ IF Len(list) = 1
                         THEN pg'.lists = pg.lists /\ Entries(pg') = Entries(pg)
                         ELSE /\ KeysOf(pg'.lists[shard]) = SubSeq(KeysOf(list), 1, Len(list) - 1)
                              /\ Stored(pg) \ Stored(pg') = {list[Len(list)].key}
                              /\ Entries(pg') = Entries(pg) - 1
            /\ (pg.procs[p].pc \in {"sub", "unlock"} /\ pg'.procs[p] # pg.procs[p]) =>
                  pg'.lists = pg.lists]_vars

\* A Put has just evicted the last of three entries of its shard while the
\* other shard holds an entry, and another Put found its entry alone in its
\* shard above the capacity.
C31_Witness ==
    /\ IsCache
    /\ \E p \in CacheProcs :
          /\ pg.procs[p].pc = "sub"
          /\ Len(pg.lists[getShard(pg.procs[p].key)]) = 2
          /\ \E q \in CacheProcs :
                /\ pg.procs[q].pc = "unlock" /\ pg.procs[q].size > pg.maxSize
                /\ Len(pg.lists[getShard(pg.procs[q].key)]) = 1

\* The key of the set keys that was touched last.
MostRecentlyTouched(touched, keys) ==
    LET kept == SelectSeq(touched, LAMBDA k : k \in keys) IN kept[Len(kept)]

\* C32: a hit refreshes recency. After a Get that finds its key, and after
\* a Put of a key that is in the cache, the key is the first of its shard's
\* list; an eviction in a shard that holds two entries or more besides the
\* new one does not remove the one of them that was used last; and a Get
\* that misses leaves the cache as it is.
C32_HitRefreshesRecency ==
    [][IsCache =>
         \A p \in CacheProcs :
            /\ (pg.procs[p].pc = "idle" /\ pg'.procs[p].pc = "idle" /\ pg' # pg) =>
                  \A k \in TileKeys :
                     /\ (k \in Stored(pg) /\ GetCall(p, k)) =>
                           /\ pg'.lists[getShard(k)][1].key = k
                           /\ pg'.ret = Value(pg, k)
                     /\ (k \in Stored(pg) /\ \E v \in TileValues : PutCall(p, k, v)) =>
                           pg'.lists[getShard(k)][1].key = k
                     /\ (k \notin Stored(pg) /\ GetCall(p, k)) =>
                           /\ pg'.lists = pg.lists /\ pg'.content = pg.content
                           /\ pg'.size = pg.size /\ pg'.ret = NoValue
            /\ (pg.procs[p].pc = "evict" /\ PutEvict(p)) =>
                  LET key == pg.procs[p].key
                      others == pg.content[getShard(key)] \ {key}
                  IN  Cardinality(others) >= 2 =>
                         MostRecentlyTouched(pg.touched, others) \in Stored(pg')]_vars

\* An eviction has left the new entry and one older entry in a shard, and
\* the entry that went had been put, but was last used before the one that
\* stayed.
C32_Witness ==
    /\ IsCache
    /\ \E p \in CacheProcs :
          /\ pg.procs[p].pc = "sub"
          /\ LET shard == getShard(pg.procs[p].key)
                 list == pg.lists[shard]
             IN  /\ Len(list) = 2 /\ list[1].key = pg.procs[p].key
                 /\ \E v \in pg.puts \ Stored(pg) :
                       /\ getShard(v) = shard
                       /\ \E i, j \in 1..Len(pg.touched) :
                             i < j /\ pg.touched[i] = v /\ pg.touched[j] = list[2].key

(***************************************************************************)
(* Lock discipline: every operation as the lock calls it makes, in order.  *)
(***************************************************************************)
LockWorkers == {"request1", "request2"}      \* goroutines serving requests or using the cache
LockProcs == LockWorkers \cup {"watchFiles", "Close"}
QueryOps == {"GetCollections", "GetItem", "GetItems", "GetTile"}
CacheOps == {"Get", "Put"}
MaxReloads == 2                     \* collections one ticker round can replace

IndexLock(call) == [call |-> call, shard |-> 0]
ShardLock(call, s) == [call |-> call, shard |-> s]

\* GetCollections, GetItem, GetItems, GetTile: mutex.RLock(); defer mutex.RUnlock()
ReadCalls == <<IndexLock("RLock"), IndexLock("RUnlock")>>

WriteCalls_NoUnlock == <<IndexLock("Lock")>>

\* getCollectionMetadata, replaceCollection, Index.Close: mutex.Lock(); defer mutex.Unlock()
WriteCalls == <<IndexLock("Lock"), IndexLock("Unlock")>>

\* TileCache.Get, TileCache.Put: shard := c.getShard(key); shard.mutex.Lock() ... Unlock()
ShardCalls(key) == <<ShardLock("ShardLock", getShard(key)), ShardLock("ShardUnlock", getShard(key))>>

\* reloadIfChanged for the collections that changed: one replaceCollection each.
RECURSIVE ReloadCalls(_)
ReloadCalls(reloads) == IF reloads = 0 THEN <<>> ELSE WriteCalls \o ReloadCalls(reloads - 1)

\* watchFiles: the ticker branch is GetCollections and then reloadIfChanged for
\* every collection; the event branch is getCollectionMetadata and then
\* reloadIfChanged for the one it found.
WatchCalls(branch, reloads) ==
    IF branch = "ticker" THEN ReadCalls \o ReloadCalls(reloads)
    ELSE WriteCalls \o ReloadCalls(IF reloads = 0 THEN 0 ELSE 1)

NoLocks == [calls |-> <<>>, held |-> <<>>]

LockInit ==
    /\ IndexInit
    /\ pg = [kind |-> "locks",
             mutex |-> [readers |-> 0, writer |-> FALSE],
             shards |-> [s \in Shards |-> FALSE],
             closed |-> FALSE,
             procs |-> [p \in LockProcs |-> NoLocks]]

LockBegin(p, calls) ==
    /\ pg.kind = "locks"
    /\ pg.procs[p].calls = <<>>
    /\ pg' = [pg EXCEPT !.procs[p].calls = calls]
    /\ UNCHANGED <<files, stores, Collections, mutex, watch, closer, rd>>

\* A request goroutine calls one of the Index's query methods.
LockQuery(p, op) == op \in QueryOps /\ LockBegin(p, ReadCalls)

\* A goroutine calls TileCache.Get or TileCache.Put.
LockCache(p, op, key) == op \in CacheOps /\ LockBegin(p, ShardCalls(key))

\* watchFiles' select takes the ticker or an event.
LockWatch(branch, reloads) ==
    branch \in {"ticker", "event"} /\ LockBegin("watchFiles", WatchCalls(branch, reloads))

\* Index.Close, once.
LockClose ==
    /\ pg.kind = "locks" /\ ~pg.closed
    /\ pg.procs["Close"].calls = <<>>
    /\ pg' = [pg EXCEPT !.closed = TRUE, !.procs["Close"].calls = WriteCalls]
    /\ UNCHANGED <<files, stores, Collections, mutex, watch, closer, rd>>

Without(held, lock) ==
    LET i == CHOOSE i \in 1..Len(held) : held[i] = lock
    IN  SubSeq(held, 1, i - 1) \o SubSeq(held, i + 1, Len(held))

\* The next lock call of p: granted when the lock's state allows it.
LockStep(p) ==
    /\ pg.kind = "locks"
    /\ pg.procs[p].calls # <<>>
    /\ LET c == Head(pg.procs[p].calls)
           rest == Tail(pg.procs[p].calls)
           held == pg.procs[p].held
       IN  CASE c.call = "RLock" ->
                 /\ CanRLock(pg.mutex)
                 /\ pg' = [pg EXCEPT !.mutex.readers = @ + 1,
                                     !.procs[p] = [calls |-> rest, held |-> Append(held, "R")]]
             [] c.call = "RUnlock" ->
                 pg' = [pg EXCEPT !.mutex.readers = @ - 1,
                                  !.procs[p] = [calls |-> rest, held |-> Without(held, "R")]]
             [] c.call = "Lock" ->
                 /\ CanLock(pg.mutex)
                 /\ pg' = [pg EXCEPT !.mutex.writer = TRUE,
                                     !.procs[p] = [calls |-> rest, held |-> Append(held, "W")]]
             [] c.call = "Unlock" ->
                 pg' = [pg EXCEPT !.mutex.writer = FALSE,
                                  !.procs[p] = [calls |-> rest, held |-> Without(held, "W")]]
             [] c.call = "ShardLock" ->
                 /\ ~pg.shards[c.shard]
                 /\ pg' = [pg EXCEPT !.shards[c.shard] = TRUE,
                                     !.procs[p] = [calls |-> rest, held |-> Append(held, "shard")]]
             [] c.call = "ShardUnlock" ->
                 pg' = [pg EXCEPT !.shards[c.shard] = FALSE,
                                  !.procs[p] = [calls |-> rest, held |-> Without(held, "shard")]]
    /\ UNCHANGED <<files, stores, Collections, mutex, watch, closer, rd>>

LockNext ==
    \/ \E p \in LockWorkers, op \in QueryOps : LockQuery(p, op)
    \/ \E p \in LockWorkers, op \in CacheOps, key \in TileKeys : LockCache(p, op, key)
    \/ \E branch \in {"ticker", "event"}, reloads \in 0..MaxReloads : LockWatch(branch, reloads)
    \/ LockClose
    \/ \E p \in LockProcs : LockStep(p)

LockSpec == LockInit /\ [][LockNext]_vars

IsLocks == pg.kind = "locks"
HeldCount(p, locks) == Len(SelectSeq(pg.procs[p].held, LAMBDA l : l \in locks))
LockWaits(p) == pg.procs[p].calls # <<>> /\ ~ENABLED LockStep(p)

\* C33: no operation holds the Index lock and a shard lock together, none
\* takes the Index lock (read or write) while it holds it, none holds two
\* shard locks, and whenever an operation has lock calls left to make, some
\* operation can make its next one: no state has every pending operation
\* waiting on a lock.
C33_LockDiscipline ==
    IsLocks =>
        /\ \A p \in LockProcs :
              /\ ~(HeldCount(p, {"R", "W"}) > 0 /\ HeldCount(p, {"shard"}) > 0)
              /\ HeldCount(p, {"R", "W"}) <= 1
              /\ HeldCount(p, {"shard"}) <= 1
        /\ (\E p \in LockProcs : pg.procs[p].calls # <<>>)
              => \E p \in LockProcs : ENABLED LockStep(p)

\* A request holds the Index read lock and another a shard lock while the
\* reload goroutine and Close both wait for the write lock.
C33_Witness ==
    /\ IsLocks
    /\ \E p, q \in LockWorkers :
          /\ pg.procs[p].held = <<"R">>
          /\ pg.procs[q].held = <<"shard">>
    /\ LockWaits("watchFiles") /\ Head(pg.procs["watchFiles"].calls).call = "Lock"
    /\ LockWaits("Close")

(***************************************************************************)
(* The life of a Collection object: built, active, closed.                 *)
(***************************************************************************)
Active(colls) == {colls[n] : n \in Names} \ {NoStore}
IsOpen(sts, i) == sts[i].dataFile = "open"

\* C34: whenever nobody holds the write lock, every name has at most one
\* Collection, no Collection serves two names, and every Collection in the map
\* has an open backing file. A step that closes the file of a Collection that
\* is in the map is replaceCollection's old.Close() on the entry it is about
\* to overwrite or Index.Close, done under the write lock on a file that is
\* still open; a closed file is never open again, and what an assignment puts
\* into the map is an open, completely built Collection that was not in the
\* map before.
C34_StoreLifecycle ==
    [][/\ (stores' # stores \/ Collections' # Collections \/ mutex' # mutex) =>
              /\ ~mutex'.writer =>
                    /\ \A n \in Names :
                          Collections'[n] # NoStore => IsOpen(stores', Collections'[n])
                    /\ \A n, m \in Names :
                          n # m /\ Collections'[n] # NoStore => Collections'[n] # Collections'[m]
              /\ \A i \in Slots :
                    /\ stores[i].dataFile = "closed" => ~IsOpen(stores', i)
                    /\ IsOpen(stores, i) /\ ~IsOpen(stores', i) /\ i \in Active(Collections) =>
                          /\ mutex.writer
                          /\ \/ watch.pc = "replClose" /\ Collections[watch.md.Name] = i
                             \/ closer = "locked"
              /\ \A n \in Names :
                    Collections'[n] # Collections[n] /\ Collections'[n] # NoStore =>
                          /\ IsOpen(stores', Collections'[n])
                          /\ stores'[Collections'[n]].built
                          /\ Collections'[n] \notin Active(Collections)
                          /\ mutex.writer
       /\ (watch.pc = "replClose" /\ watch'.pc = "replAssign") =>
              \A i \in Slots : Collections[watch.md.Name] = i => IsOpen(stores, i)
       /\ (closer = "locked" /\ closer' = "unlock") =>
              \A i \in Active(Collections) : IsOpen(stores, i)
      ]_vars

\* A reload has swapped in a newer Collection for "a" and released the lock;
\* the superseded one was closed.
C34_Witness ==
    /\ pg.kind = "none"
    /\ ~mutex.writer
    /\ Collections["a"] # NoStore
    /\ Served("a").dataFile = "open"
    /\ Served("a").metadata.LastModified > BaseTime
    /\ watch.pc = "select"

LastModifiedOf(sts, i) == sts[i].metadata.LastModified

\* C36: generations only move forward. Every step that puts a Collection into
\* the map puts one whose LastModified is strictly later than the LastModified
\* the reload started from, which is that of the Collection it replaces when
\* there is one; so the LastModified served for a name never decreases.
C36_GenerationsMoveForward ==
    [][\A n \in Names :
          /\ Collections'[n] # Collections[n] /\ Collections'[n] # NoStore =>
                /\ watch.md.Name = n
                /\ LastModifiedOf(stores', Collections'[n]) > watch.md.LastModified
                /\ Collections[n] # NoStore =>
                      /\ watch.md.LastModified = LastModifiedOf(stores, Collections[n])
                      /\ LastModifiedOf(stores', Collections'[n])
                            > LastModifiedOf(stores, Collections[n])
          /\ Collections'[n] # NoStore /\ Collections[n] # NoStore =>
                LastModifiedOf(stores', Collections'[n]) >= LastModifiedOf(stores, Collections[n])
      ]_vars

\* The file of "a" went back to an older modification time after a reload had
\* installed a newer Collection, and a poll has looked at it: the newer
\* Collection stays.
C36_Witness ==
    /\ pg.kind = "none"
    /\ Collections["a"] # NoStore
    /\ Served("a").metadata.LastModified > BaseTime
    /\ files["a"].state = "ok"
    /\ files["a"].mtime < Served("a").metadata.LastModified
    /\ watch.md.Name = "a" /\ watch.err = "NotModified"

(***************************************************************************)
(* MakeIndex while it runs: the initial load next to the reload goroutine  *)
(* it has already started.                                                 *)
(***************************************************************************)
IdleWf == [pc |-> "select", queue |-> <<>>, name |-> ""]

\* index := &Index{...}; fsnotify.NewWatcher(); go index.watchFiles():
\* MakeIndex is about to range over the collections it was given.
MakeInit ==
    /\ IndexInit
    /\ pg = [kind |-> "make", pc |-> "load", name |-> "", todo |-> Names, toWatch |-> {},
             map |-> [n \in Names |-> ZeroTime],     \* LastModified by name; zero: no entry
             watched |-> FALSE, fatal |-> FALSE,
             mutex |-> [readers |-> 0, writer |-> FALSE],
             held |-> [g \in {"MakeIndex", "watchFiles"} |-> ""],
             wf |-> IdleWf]

Making == pg.kind = "make" /\ ~pg.fatal
InMap(map) == {n \in Names : map[n] # ZeroTime}

\* The access to index.Collections a goroutine is in the middle of.
Accessing(g) ==
    IF g = "MakeIndex"
    THEN CASE pg.pc = "insert" -> "write"
           [] pg.pc = "watch" -> "read"
           [] OTHER -> "none"
    ELSE CASE pg.wf.pc \in {"GetCollections", "lookup"} -> "read"
           [] pg.wf.pc = "assign" -> "write"
           [] OTHER -> "none"

\* Two goroutines are in the map at once and one of them writes: the Go
\* runtime may stop the program ("concurrent map read and map write").
MapRace ==
    /\ Accessing("MakeIndex") # "none" /\ Accessing("watchFiles") # "none"
    /\ "write" \in {Accessing("MakeIndex"), Accessing("watchFiles")}

Fatal == IF MapRace THEN BOOLEAN ELSE {FALSE}

MakeUnchanged == UNCHANGED <<files, stores, Collections, mutex, watch, closer, rd>>

\* coll, err := readCollection(name, path, t0); if err != nil { return nil, err }
MakeRead(n, ok) ==
    /\ Making /\ pg.pc = "load" /\ n \in pg.todo
    /\ pg' = IF ok THEN [pg EXCEPT !.pc = "insert", !.name = n]
             ELSE [pg EXCEPT !.pc = "failed"]
    /\ MakeUnchanged

\* index.Collections[name] = coll, and on to the next collection or to the
\* second loop, for _, c := range index.Collections.
MakeInsert ==
    /\ Making /\ pg.pc = "insert"
    /\ \E fatal \in Fatal :
          LET map == [pg.map EXCEPT ![pg.name] = BaseTime]
              todo == pg.todo \ {pg.name}
          IN  pg' = [pg EXCEPT !.fatal = fatal, !.map = map, !.todo = todo, !.name = "",
                               !.pc = IF todo = {} THEN "watch" ELSE "load",
                               !.toWatch = IF todo = {} THEN InMap(map) ELSE {}]
    /\ MakeUnchanged

\* index.watcher.Add(dirPath) for one entry of the map.
MakeWatchAdd(n) ==
    /\ Making /\ pg.pc = "watch" /\ n \in pg.toWatch
    /\ \E fatal \in Fatal :
          pg' = [pg EXCEPT !.fatal = fatal, !.watched = TRUE, !.toWatch = @ \ {n}]
    /\ MakeUnchanged

\* return index, nil
MakeReturn ==
    /\ Making /\ pg.pc = "watch" /\ pg.toWatch = {}
    /\ pg' = [pg EXCEPT !.pc = "returned"]
    /\ MakeUnchanged

WfNext(queue) ==
    IF queue = <<>> THEN IdleWf
    ELSE [pc |-> "read", queue |-> Tail(queue), name |-> Head(queue)]

\* case <-ticker.C: index.GetCollections() takes the read lock.
WfTick ==
    /\ Making /\ pg.wf.pc = "select"
    /\ CanRLock(pg.mutex)
    /\ pg' = [pg EXCEPT !.mutex.readers = @ + 1, !.held["watchFiles"] = "R",
                        !.wf.pc = "GetCollections"]
    /\ MakeUnchanged

\* GetCollections reads the map and unlocks. An insertion that is under way
\* may or may not be seen.
WfGetCollections ==
    /\ Making /\ pg.wf.pc = "GetCollections"
    /\ \E fatal \in Fatal,
          seen \in IF pg.pc = "insert" THEN {InMap(pg.map), InMap(pg.map) \cup {pg.name}}
                   ELSE {InMap(pg.map)} :
          pg' = [pg EXCEPT !.fatal = fatal, !.mutex.readers = @ - 1,
                           !.held["watchFiles"] = "",
                           !.wf = WfNext(SelectSeq(NameOrder, LAMBDA n : n \in seen))]
    /\ MakeUnchanged

\* case event := <-index.watcher.Events for the file of n, once a directory is
\* watched: getCollectionMetadata takes the write lock.
WfEvent(n) ==
    /\ Making /\ pg.wf.pc = "select" /\ pg.watched
    /\ CanLock(pg.mutex)
    /\ pg' = [pg EXCEPT !.mutex.writer = TRUE, !.held["watchFiles"] = "W",
                        !.wf.pc = "lookup", !.wf.name = n]
    /\ MakeUnchanged

\* getCollectionMetadata looks for the path in the map and unlocks.
WfLookup ==
    /\ Making /\ pg.wf.pc = "lookup"
    /\ pg' = [pg EXCEPT !.mutex.writer = FALSE, !.held["watchFiles"] = "",
                        !.wf = IF pg.wf.name \in InMap(pg.map)
                               THEN WfNext(<<pg.wf.name>>) ELSE IdleWf]
    /\ MakeUnchanged

\* reloadIfChanged: readCollection finds the file at time t; replaceCollection
\* follows when t is after the LastModified served (the entry's, or none yet).
WfRead(t) ==
    /\ Making /\ pg.wf.pc = "read"
    /\ pg' = IF After(t, pg.map[pg.wf.name])
             THEN [pg EXCEPT !.wf.pc = "replace"]
             ELSE [pg EXCEPT !.wf = WfNext(pg.wf.queue)]
    /\ MakeUnchanged

\* replaceCollection: index.mutex.Lock()
WfReplaceLock ==
    /\ Making /\ pg.wf.pc = "replace"
    /\ CanLock(pg.mutex)
    /\ pg' = [pg EXCEPT !.mutex.writer = TRUE, !.held["watchFiles"] = "W",
                        !.wf.pc = "assign"]
    /\ MakeUnchanged

\* replaceCollection: index.Collections[name] = c, and the deferred Unlock.
WfReplaceAssign(t) ==
    /\ Making /\ pg.wf.pc = "assign"
    /\ After(t, pg.map[pg.wf.name])
    /\ \E fatal \in Fatal :
          pg' = [pg EXCEPT !.fatal = fatal, !.map[pg.wf.name] = t,
                           !.mutex.writer = FALSE, !.held["watchFiles"] = "",
                           !.wf = WfNext(pg.wf.queue)]
    /\ MakeUnchanged

MakeNext ==
    \/ \E n \in Names, ok \in BOOLEAN : MakeRead(n, ok)
    \/ MakeInsert
    \/ \E n \in Names : MakeWatchAdd(n)
    \/ MakeReturn
    \/ WfTick
    \/ WfGetCollections
    \/ \E n \in Names : WfEvent(n)
    \/ WfLookup
    \/ \E t \in Times : WfRead(t)
    \/ WfReplaceLock
    \/ \E t \in Times : WfReplaceAssign(t)

MakeSpec == MakeInit /\ [][MakeNext]_vars

\* C35: every goroutine that is reading index.Collections holds the Index lock
\* (read or write), and every goroutine that is writing it holds the write
\* lock, from the moment watchFiles is started.
C35_MapAccessUnderLock ==
    pg.kind = "make" =>
        \A g \in {"MakeIndex", "watchFiles"} :
            /\ Accessing(g) = "read" => pg.held[g] \in {"R", "W"}
            /\ Accessing(g) = "write" => pg.held[g] = "W"

\* What the unlocked accesses allow: MakeIndex is inserting while watchFiles
\* reads or writes the map, and the runtime has stopped the program.
C35_NoFatalRace == pg.kind = "make" => ~pg.fatal

\* C37: following next links terminates. Every page that has a next link
\* gives it a storage index greater than the storage index of every feature
\* the client has received so far and greater than the index of the link the
\* page was asked with, so the client has seen at most Len(features) pages
\* when it comes to the page without a next link.
C37_NextLinksTerminate ==
    [][(pg.kind = "page" /\ pg'.pages = pg.pages + 1) =>
          /\ ~pg'.done =>
                /\ \A k \in 1..Len(pg'.out) : pg'.req.start > pg'.out[k]
                /\ pg'.req.start > pg.req.start
                /\ pg'.req.start < Len(pg.features)
          /\ pg'.pages - (IF pg'.done THEN 1 ELSE 0) <= Len(pg.features)
      ]_vars

\* The client needed as many pages as there are features, and two of the
\* features share an ID while another has a different one or none.
C37_Witness ==
    /\ pg.kind = "page" /\ pg.done
    /\ Len(pg.features) = MaxFeatures
    /\ pg.pages = Len(pg.features)
    /\ \E i, j \in 1..Len(pg.features) :
          i < j /\ pg.features[i].id = pg.features[j].id /\ pg.features[i].id # ""
    /\ \E i \in 1..Len(pg.features) : pg.features[i].id # pg.features[1].id

(***************************************************************************)
(* Geometries.  A *geojson.Geometry is <<>> (nil) or <<g>> with g.Type and *)
(* the positions of that type; a position is its coordinates, the first    *)
(* (the longitude) being the cell it lies in.                              *)
(***************************************************************************)
NilGeometry == <<>>
Point(p) == <<[Type |-> "Point", Point |-> p, MultiPoint |-> <<>>]>>
MultiPoint(ps) == <<[Type |-> "MultiPoint", Point |-> <<>>, MultiPoint |-> ps]>>
UnknownGeometry == <<[Type |-> "Circle", Point |-> <<>>, MultiPoint |-> <<>>]>>

computeBounds_NilIsFull(g) ==
    IF g = NilGeometry THEN Cells
    ELSE CASE g[1].Type = "Point" ->
                 IF Len(g[1].Point) >= 2 THEN {g[1].Point[1]} ELSE EmptyRect
           [] g[1].Type = "MultiPoint" ->
                 UNION {IF Len(g[1].MultiPoint[k]) >= 2 THEN {g[1].MultiPoint[k][1]} ELSE EmptyRect :
                          k \in 1..Len(g[1].MultiPoint)}
           [] OTHER -> EmptyRect

\* computeBounds: s2.EmptyRect() grown by every position that has two coordinates.
computeBounds(g) ==
    IF g = NilGeometry THEN EmptyRect
    ELSE CASE g[1].Type = "Point" ->
                 IF Len(g[1].Point) >= 2 THEN {g[1].Point[1]} ELSE EmptyRect
           [] g[1].Type = "MultiPoint" ->
                 UNION {IF Len(g[1].MultiPoint[k]) >= 2 THEN {g[1].MultiPoint[k][1]} ELSE EmptyRect :
                          k \in 1..Len(g[1].MultiPoint)}
           [] OTHER -> EmptyRect

\* The features of a file: the ID and the geometry.
GeomFeatures ==
    [id : {"A", "B"},
     geometry : {NilGeometry, UnknownGeometry, Point(<<1>>), Point(<<1, 0>>),
                 MultiPoint(<< <<1>>, <<2, 0>> >>)}]

\* readCollection: coll.bbox[i] = computeBounds(f.Geometry)
readGeometries(raw) ==
    [i \in 1..Len(raw) |-> [id |-> raw[i].id, rect |-> computeBounds(raw[i].geometry)]]

GeomInit ==
    /\ IndexInit
    /\ \E raw \in SeqsUpTo(GeomFeatures, MaxFeatures) :
          pg = [kind |-> "geom", raw |-> raw, pc |-> "file", features |-> <<>>,
                req |-> <<>>, res |-> Pending]

\* readCollection
GeomRead ==
    /\ pg.kind = "geom" /\ pg.pc = "file"
    /\ pg' = [pg EXCEPT !.pc = "loaded", !.features = readGeometries(pg.raw)]
    /\ UNCHANGED <<files, stores, Collections, mutex, watch, closer, rd>>

\* GetItems on the loaded collection, without a startID.
GeomGetItems ==
    /\ pg.kind = "geom" /\ pg.pc = "loaded"
    /\ \E bbox \in {FullRect, {1}}, start \in 0..1, limit \in {1, DefaultLimit} :
          pg' = [pg EXCEPT !.req = <<"GetItems", bbox, start, limit>>,
                           !.res = GetItems(PageColl(pg.features), "", start, limit, bbox,
                                            ZeroTime, ZeroTime)]
    /\ UNCHANGED <<files, stores, Collections, mutex, watch, closer, rd>>

\* GetTile on the loaded collection.
GeomGetTile ==
    /\ pg.kind = "geom" /\ pg.pc = "loaded"
    /\ \E zoom \in Zooms :
          \E x \in 0..(2 ^ zoom - 1) :
             pg' = [pg EXCEPT !.req = <<"GetTile", zoom, x>>,
                              !.res = GetTile(CallIndex(pg.features, BaseTime), "a", zoom, x)]
    /\ UNCHANGED <<files, stores, Collections, mutex, watch, closer, rd>>

\* GetItem on the loaded collection.
GeomGetItem ==
    /\ pg.kind = "geom" /\ pg.pc = "loaded"
    /\ \E id \in {"A", "B"} :
          pg' = [pg EXCEPT !.req = <<"GetItem", id>>,
                           !.res = GetItem(CallIndex(pg.features, BaseTime), "a", id)]
    /\ UNCHANGED <<files, stores, Collections, mutex, watch, closer, rd>>

GeomNext == GeomRead \/ GeomGetItems \/ GeomGetTile \/ GeomGetItem

GeomSpec == GeomInit /\ [][GeomNext]_vars

\* The cells in which a geometry has a position of two coordinates or more.
UsableCells(g) ==
    IF g = NilGeometry THEN {}
    ELSE {c \in Cells :
            \/ g[1].Type = "Point" /\ Len(g[1].Point) >= 2 /\ g[1].Point[1] = c
            \/ g[1].Type = "MultiPoint" /\ \E k \in 1..Len(g[1].MultiPoint) :
                  Len(g[1].MultiPoint[k]) >= 2 /\ g[1].MultiPoint[k][1] = c}
Unusable(g) == UsableCells(g) = {}

\* The storage indices of the features of a file that have a position in bbox.
UsableIn(raw, bbox) ==
    SelectSeq([i \in 1..Len(raw) |-> i - 1],
              LAMBDA i : UsableCells(raw[i + 1].geometry) \cap bbox # {})

\* The file without its features of unusable geometry.
UsableOnly(raw) == SelectSeq(raw, LAMBDA f : ~Unusable(f.geometry))

C39_ByteRangeIndex ==
    pg.kind = "item" =>
        LET n == Len(pg.features)
            file == DataFile(pg.features)
        IN  /\ Len(file.offset) = n + 1
            /\ \A i \in 0..(n - 1) :
                  /\ file.offset[i + 1] < file.offset[i + 2]
                  /\ file.offset[i + 1] >= 0
                  /\ file.offset[i + 2] - 2 <= Len(file.data)
                  /\ SubSeq(file.data, file.offset[i + 1] + 1, file.offset[i + 2] - 2)
                        = Marshal(pg.features[i + 1])
                  /\ FeatureBytes(pg.features, i) = Marshal(pg.features[i + 1])
            /\ \A id \in {pg.features[k].id : k \in 1..n} :
                  HasID(pg.features, id) =>
                      /\ ByID(pg.features, id) \in 0..(n - 1)
                      /\ pg.features[ByID(pg.features, id) + 1].id = id
            /\ (pg.res # Pending /\ pg.collection = "a" /\ HasID(pg.features, pg.id)) =>
                  /\ pg.res.err = "nil"
                  /\ pg.res.feature = <<pg.features[ByID(pg.features, pg.id) + 1]>>

\* GetItem has returned a feature of a full collection in which another
\* feature has the same ID and a third has none.
C39_Witness ==
    /\ pg.kind = "item" /\ pg.res # Pending
    /\ Len(pg.features) = MaxFeatures
    /\ pg.res.feature # NoFeature
    /\ \E i, j \in 1..Len(pg.features) :
          i < j /\ pg.features[i].id = pg.id /\ pg.features[j].id = pg.id
    /\ \E i \in 1..Len(pg.features) : pg.features[i].id = ""

====
